---- MODULE Spec2Model ----
(***************************************************************************)
(* Verification model of the resilient acquisition layer of mariom:        *)
(*   - the QuoteMedia credential cache (lib/quotemedia-auth: cachedSid,    *)
(*     cachedDataToolToken, getQuoteMediaSid, generateDataToolToken,       *)
(*     clearCachedSid, clearCachedToken) and the route handlers that use   *)
(*     it (snap quotes GET, tmx-quotemedia-proxy GET, get-token GET);      *)
(*   - the two retry executors of api/halts and api/process-symbol         *)
(*     (fetchNasdaqHalts' loop and withRetry).                             *)
(* JavaScript runs every handler to its next network await without         *)
(* interleaving, so one action is one such run-to-await segment.           *)
(***************************************************************************)
EXTENDS Integers, Sequences, FiniteSets, TLC

(* ---------------------------------------------------------------------- *)
(* Bounds of the model                                                    *)
(* ---------------------------------------------------------------------- *)
\* concurrent route-handler invocations
Procs == {"h1", "h2"}
\* data rows of a halt table
MaxRows == 2
\* table rows of an HTML quote page
MaxQuoteRows == 2
\* objects in an upstream quote array
MaxQuotes == 2
\* requests a polling component issues
MaxFetches == 3
\* records in one response to a polling component
MaxRecords == 2
\* changes of the filter selection of RealTimeQuotes
MaxFilterChanges == 2
\* startStreaming calls of one TMXWebStreamer
MaxStarts == 2
\* intervals and WebSocket objects one TMXWebStreamer creates
MaxHandles == 4
\* interval callbacks of one TMXWebStreamer that run
MaxPollTicks == 2
\* candidate endpoints of one probe
MaxCandidates == 3
\* number of clock advances explored
MaxTicks == 1
\* route-handler invocations started during one exploration
MaxInvocations == 2
\* largest maxRetries passed to withRetry
MaxRetriesArg == 3

\* one clock advance, in milliseconds (one hour)
TickMs == 60 * 60 * 1000

(* ---------------------------------------------------------------------- *)
(* Program constants                                                      *)
(* ---------------------------------------------------------------------- *)
\* sidExpiration = Date.now() + (60 * 60 * 1000)
SID_TTL == 60 * 60 * 1000
\* tokenExpiration = Date.now() + (30 * 60 * 1000)
TOKEN_TTL == 30 * 60 * 1000

\* JavaScript null; a present value v is the one-element tuple <<v>>, a
\* Datatool token is <<k, s>>: the k-th token issued, derived from SID s.
Null == <<>>

VARIABLES
    now,                  \* Date.now()
    credsSet,             \* QUOTEMEDIA_USERNAME / QUOTEMEDIA_PASSWORD are set
    cachedSid,            \* let cachedSid: string | null
    sidExpiration,        \* let sidExpiration: number | null
    cachedDataToolToken,  \* let cachedDataToolToken: string | null
    tokenExpiration,      \* let tokenExpiration: number | null
    sidRequests,          \* SID authentication requests issued so far
    tokenRequests,        \* token requests issued so far
    tokInvalidated,       \* clearCachedToken ran and no generateDataToolToken call started since
    started,              \* handler invocations started so far
    lastResponse,         \* the response sent by the last segment, if it sent one
    lastSidGet,           \* observation of the getQuoteMediaSid return of the last segment
    lastInnerSidGet,      \* the same, for the call made inside generateDataToolToken
    lastTokenGet,         \* observation of the generateDataToolToken return of the last segment
    h,                    \* per handler invocation: position, locals, response
    wr,                   \* one withRetry execution
    fh,                   \* one fetchNasdaqHalts execution
    pr,                   \* one sequential endpoint probe of a route handler
    env,                  \* what each candidate endpoint answers when requested
    tbl,                  \* the halt table handed to parseNasdaqTable, and today's date
    parsed,               \* what parseNasdaqTable returned, once it has
    parseExit,            \* how parseNasdaqTable ended: "none", "return", "throw"
    post,                 \* one POST request for a symbol's data
    tmx,                  \* one call of parseTMXMarketData: input and result
    qm,                   \* the proxy GET after its upstream answered: body and response
    ui,                   \* one polling component: RealTimeQuotes or HaltsTable
    stream                \* one TMXWebStreamer component

cacheVars == <<now, credsSet, cachedSid, sidExpiration, cachedDataToolToken,
               tokenExpiration, sidRequests, tokenRequests, tokInvalidated,
               started, lastResponse, lastSidGet, lastInnerSidGet,
               lastTokenGet, h>>

retryVars == <<wr, fh>>

probeVars == <<pr, env>>

tableVars == <<tbl, parsed, parseExit>>

postVars == <<post>>

normVars == <<tmx, qm>>

pollVars == <<ui, stream>>

moreVars == <<postVars, normVars, pollVars>>

vars == <<cacheVars, retryVars, probeVars, tableVars, moreVars>>

(* ---------------------------------------------------------------------- *)
(* Credential cache: lib/quotemedia-auth                                   *)
(* ---------------------------------------------------------------------- *)
\* The module-level cache as one value, so that a continuation can be
\* evaluated on the cache as the current segment has already changed it.
Cache == [sid |-> cachedSid, sidExp |-> sidExpiration,
          tok |-> cachedDataToolToken, tokExp |-> tokenExpiration]

\* Whether a cached value with expiry exp is usable at time t (data model:
\* a credential is usable iff now < expiresAt).
Usable(val, exp, t) == val # Null /\ exp # Null /\ t < exp[1]

\* What a caller observed of a completed get (observation only): the value
\* returned, the number of authentication requests the call issued, whether
\* the cache held a usable credential when the call started, whether it held
\* an expired one, whether the returned value was usable at the return,
\* whether the call was the first after an invalidate, and whether an
\* invalidate ran while the call's request was in flight.
NoObs == [set |-> FALSE, val |-> Null, net |-> 0, wasLive |-> FALSE,
          sawExpired |-> FALSE, usable |-> FALSE, afterInv |-> FALSE,
          stale |-> FALSE]

Obs(val, net, wasLive, sawExpired, usable, afterInv, stale) ==
    [set |-> TRUE, val |-> val, net |-> net, wasLive |-> wasLive,
     sawExpired |-> sawExpired, usable |-> usable, afterInv |-> afterInv,
     stale |-> stale]

\* A handler invocation that has not started.
Idle == [pc |-> "idle", route |-> "none", req |-> 0, sid |-> Null, tok |-> Null,
         reqSid |-> Null, status |-> 0, errorType |-> "none",
         rejStatus |-> 0, rejSid |-> Null, rejTok |-> Null,
         gs |-> NoObs, gi |-> NoObs, gt |-> NoObs,
         wasLive |-> FALSE, sawExpired |-> FALSE, afterInv |-> FALSE, stale |-> FALSE,
         tWasLive |-> FALSE, tSawExpired |-> FALSE, tAfterInv |-> FALSE,
         tEntered |-> FALSE]

\* Positions at which a handler awaits the SID authentication response, and
\* the token response.
SidAwaitPcs == {"snap_sid", "snap_resid", "proxy_sid", "proxy_tsid", "gt_sid"}
TokAwaitPcs == {"proxy_token", "gt_token"}
\* The getQuoteMediaSid calls made inside generateDataToolToken.
InnerSidPcs == {"proxy_tsid", "gt_sid"}

\* if (cachedSid && sidExpiration && Date.now() < sidExpiration)
SidLive_NeverCached(c, t) == FALSE
SidLive_Inclusive(c, t) == c.sid # Null /\ c.sidExp # Null /\ t <= c.sidExp[1]
SidLive(c, t) == c.sid # Null /\ c.sidExp # Null /\ t < c.sidExp[1]

\* if (cachedDataToolToken && tokenExpiration && Date.now() < tokenExpiration)
TokenLive(c, t) == c.tok # Null /\ c.tokExp # Null /\ t < c.tokExp[1]

\* NextResponse.json(..., {status}) : the handler responds and is over.
Respond(st, status, errorType) ==
    [st EXCEPT !.pc = "done", !.status = status, !.errorType = errorType]

\* generateDataToolToken returned token v to its caller.
AfterToken(st, v) ==
    IF st.route = "proxy"
    THEN [st EXCEPT !.pc = "proxy_fetch", !.tok = v]
    ELSE Respond([st EXCEPT !.tok = v], 200, "none")

\* generateDataToolToken threw (its catch rethrows) to its caller.
TokenThrow(st) ==
    IF st.route = "proxy"
    THEN Respond(st, 401, "TOKEN_FAILED")
    ELSE Respond(st, 500, "Token generation failed")

\* generateDataToolToken, after `const sid = await getQuoteMediaSid()`:
\* the token request is issued with that sid in its body.
IssueTokenRequest(st, v) ==
    [st EXCEPT !.pc = IF st.route = "proxy" THEN "proxy_token" ELSE "gt_token",
               !.reqSid = v, !.req = tokenRequests + 1, !.stale = FALSE]

\* getQuoteMediaSid threw (its catch rethrows) to the caller at `site`.
SidThrow(st, site) ==
    CASE site = "snap_sid"  -> Respond(st, 401, "Failed to authenticate with QuoteMedia")
      [] site = "snap_resid" -> Respond(st, 500, "Failed to retry after authentication")
      [] site = "proxy_sid" -> Respond(st, 401, "AUTH_FAILED")
      [] OTHER -> TokenThrow(st)

\* getQuoteMediaSid: the cache check, then the authentication request.
SidMiss(st, site, c, t, afterInv) ==
    IF ~credsSet
    THEN SidThrow(st, site)
    ELSE [st EXCEPT !.pc = site, !.req = sidRequests + 1,
                    !.wasLive = Usable(c.sid, c.sidExp, t),
                    !.sawExpired = (c.sid # Null /\ ~Usable(c.sid, c.sidExp, t)),
                    !.afterInv = afterInv, !.stale = FALSE]

\* The observation of a getQuoteMediaSid call answered from the cache.
SidHitObs(c, t, afterInv) ==
    Obs(c.sid, 0, Usable(c.sid, c.sidExp, t),
        c.sid # Null /\ ~Usable(c.sid, c.sidExp, t),
        Usable(c.sid, c.sidExp, t), afterInv, FALSE)

\* generateDataToolToken called by the handler of st.route: the cache check,
\* then getQuoteMediaSid, then the token request.
CallGenToken(st0, c, t) ==
    LET st == [st0 EXCEPT !.tEntered = TRUE] IN
    IF TokenLive(c, t)
    THEN AfterToken([st EXCEPT !.gt = Obs(c.tok, 0, Usable(c.tok, c.tokExp, t),
                                          c.tok # Null /\ ~Usable(c.tok, c.tokExp, t),
                                          Usable(c.tok, c.tokExp, t),
                                          tokInvalidated, FALSE)], c.tok)
    ELSE LET site == IF st.route = "proxy" THEN "proxy_tsid" ELSE "gt_sid"
             st1 == [st EXCEPT !.tWasLive = Usable(c.tok, c.tokExp, t),
                               !.tSawExpired = (c.tok # Null /\ ~Usable(c.tok, c.tokExp, t)),
                               !.tAfterInv = tokInvalidated]
         IN IF SidLive(c, t)
            THEN IssueTokenRequest([st1 EXCEPT !.gi = SidHitObs(c, t, FALSE)], c.sid)
            ELSE SidMiss(st1, site, c, t, FALSE)

\* getQuoteMediaSid returned v to the caller at `site`; the caller runs on
\* to its next network await.
AfterSid(st, site, v, c, t) ==
    CASE site = "snap_sid"   -> [st EXCEPT !.pc = "snap_fetch", !.sid = v]
      [] site = "snap_resid" -> [st EXCEPT !.pc = "snap_refetch", !.sid = v]
      [] site = "proxy_sid"  -> CallGenToken([st EXCEPT !.sid = v], c, t)
      [] OTHER               -> IssueTokenRequest(st, v)

\* A handler calls getQuoteMediaSid at `site` (route-level call sites).
CallGetSid(st, site, c, t, afterInv) ==
    IF SidLive(c, t)
    THEN AfterSid([st EXCEPT !.gs = SidHitObs(c, t, afterInv)], site, c.sid, c, t)
    ELSE SidMiss(st, site, c, t, afterInv)

\* cachedSid = sessionId; sidExpiration = Date.now() + (60 * 60 * 1000)
StoreSid_NoTtl(c, v, t) == [c EXCEPT !.sid = v, !.sidExp = <<t>>]
StoreSid(c, v, t) == [c EXCEPT !.sid = v, !.sidExp = <<t + SID_TTL>>]

\* cachedDataToolToken = token; tokenExpiration = Date.now() + (30 * 60 * 1000)
StoreToken(c, v, t) == [c EXCEPT !.tok = v, !.tokExp = <<t + TOKEN_TTL>>]

ClearedSid_All(c) == [c EXCEPT !.sid = Null, !.sidExp = Null, !.tok = Null, !.tokExp = Null]
\* clearCachedSid(): cachedSid = null; sidExpiration = null
ClearedSid(c) == [c EXCEPT !.sid = Null, !.sidExp = Null]

ClearedToken_ValueOnly(c) == [c EXCEPT !.tok = Null]
\* clearCachedToken(): cachedDataToolToken = null; tokenExpiration = null
ClearedToken(c) == [c EXCEPT !.tok = Null, !.tokExp = Null]

AuthFailed_Clears(c) == [c EXCEPT !.sid = Null, !.sidExp = Null, !.tok = Null, !.tokExp = Null]
\* catch (error) { console.error(...); throw error }: the cache after a
\* failed authentication or token request; the catch writes nothing.
AuthFailed(c) == c

\* The module-level variables after the segment.
SetCache(c) ==
    /\ cachedSid' = c.sid
    /\ sidExpiration' = c.sidExp
    /\ cachedDataToolToken' = c.tok
    /\ tokenExpiration' = c.tokExp

\* The response a handler sent, with the credentials of the downstream call
\* that was rejected with 401/403 during the invocation, if one was.
NoResponse == [sent |-> FALSE, route |-> "none", status |-> 0, errorType |-> "none",
               rejStatus |-> 0, rejSid |-> Null, rejTok |-> Null]

ResponseOf(st) ==
    [sent |-> TRUE, route |-> st.route, status |-> st.status, errorType |-> st.errorType,
     rejStatus |-> st.rejStatus, rejSid |-> st.rejSid, rejTok |-> st.rejTok]

\* No get returned and no response was sent during the segment: nothing to
\* observe in its end state.
NoGetReturned ==
    /\ lastResponse' = NoResponse
    /\ lastSidGet' = NoObs
    /\ lastInnerSidGet' = NoObs
    /\ lastTokenGet' = NoObs

\* Requests in flight when an invalidate runs are marked (observation only).
MarkStale(hh, pcs) ==
    [q \in Procs |-> IF hh[q].pc \in pcs THEN [hh[q] EXCEPT !.stale = TRUE] ELSE hh[q]]

\* Handler p ends its segment in record st (the other handlers as in hh);
\* a request newly in flight and an invocation newly started are counted, and
\* the gets that returned during the segment are published as observations.
Step(p, hh, st) ==
    LET newSid == st.pc \in SidAwaitPcs /\ h[p].pc \notin SidAwaitPcs
        newTok == st.pc \in TokAwaitPcs /\ h[p].pc \notin TokAwaitPcs
    IN /\ h' = [hh EXCEPT ![p] = IF st.pc = "done" THEN Idle
                                 ELSE [st EXCEPT !.gs = NoObs, !.gi = NoObs, !.gt = NoObs]]
       /\ lastResponse' = IF st.pc = "done" THEN ResponseOf(st) ELSE NoResponse
       /\ lastSidGet' = st.gs
       /\ lastInnerSidGet' = st.gi
       /\ lastTokenGet' = st.gt
       /\ started' = IF h[p].pc = "idle" THEN started + 1 ELSE started
       /\ sidRequests' = IF newSid THEN sidRequests + 1 ELSE sidRequests
       /\ tokenRequests' = IF newTok THEN tokenRequests + 1 ELSE tokenRequests
       /\ tokInvalidated' = (tokInvalidated /\ st.tEntered = h[p].tEntered)

\* A request arrives and starts an invocation in a free slot. The slots are
\* interchangeable, so the second one is taken only while the first is busy.
CanStart(p) ==
    /\ h[p].pc = "idle"
    /\ p = "h2" => h["h1"].pc # "idle"
    /\ started < MaxInvocations

\* Outcomes of an authentication request: a 2xx response carrying the field,
\* a non-2xx response, a 2xx response without the field.
AuthOutcomes == {"ok", "http_error", "no_field"}

\* getQuoteMediaSid resumes with the response of its authentication request.
SidResponse(p, outcome) ==
    /\ h[p].pc \in SidAwaitPcs
    /\ LET st == h[p]
           v == <<st.req>>
           c == StoreSid(Cache, v, now)
           obs == Obs(v, 1, st.wasLive, st.sawExpired, Usable(c.sid, c.sidExp, now),
                      st.afterInv, st.stale)
       IN IF outcome = "ok"
          THEN /\ SetCache(c)
               /\ Step(p, h, AfterSid(IF st.pc \in InnerSidPcs
                                      THEN [st EXCEPT !.gi = obs]
                                      ELSE [st EXCEPT !.gs = obs],
                                      st.pc, v, c, now))
          ELSE /\ SetCache(AuthFailed(Cache))
               /\ Step(p, h, SidThrow(st, st.pc))
    /\ UNCHANGED <<retryVars, probeVars, tableVars, moreVars, now, credsSet>>

\* generateDataToolToken resumes with the response of its token request.
TokenResponse(p, outcome) ==
    /\ h[p].pc \in TokAwaitPcs
    /\ LET st == h[p]
           v == <<st.req, st.reqSid[1]>>
           c == StoreToken(Cache, v, now)
       IN IF outcome = "ok"
          THEN /\ SetCache(c)
               /\ Step(p, h, AfterToken([st EXCEPT !.gt = Obs(v, 1, st.tWasLive, st.tSawExpired,
                                            Usable(c.tok, c.tokExp, now),
                                            st.tAfterInv, st.stale)], v))
          ELSE /\ SetCache(AuthFailed(Cache))
               /\ Step(p, h, TokenThrow(st))
    /\ UNCHANGED <<retryVars, probeVars, tableVars, moreVars, now, credsSet>>

\* clearCachedToken(), exported for any importer of the module.
ClearCachedToken ==
    /\ SetCache(ClearedToken(Cache))
    /\ h' = MarkStale(h, TokAwaitPcs)
    /\ tokInvalidated' = TRUE
    /\ NoGetReturned
    /\ UNCHANGED <<retryVars, probeVars, tableVars, moreVars, now, credsSet, sidRequests, tokenRequests, started>>

(* ---------------------------------------------------------------------- *)
(* Snap quotes route: GET                                                  *)
(* ---------------------------------------------------------------------- *)
SnapStart(p) ==
    /\ CanStart(p)
    /\ Step(p, h, CallGetSid([Idle EXCEPT !.route = "snap"], "snap_sid", Cache, now, FALSE))
    /\ UNCHANGED <<retryVars, probeVars, tableVars, moreVars, now, credsSet, cachedSid, sidExpiration, cachedDataToolToken, tokenExpiration>>

\* The getSnapQuotes response arrives: 401/403 clears the SID and retries once.
SnapFetchResponse(p, status, wellFormed) ==
    /\ h[p].pc = "snap_fetch"
    /\ LET st == h[p] IN
       IF status \in {401, 403}
       THEN /\ SetCache(ClearedSid(Cache))
            /\ Step(p, MarkStale(h, SidAwaitPcs),
                    CallGetSid([st EXCEPT !.rejStatus = status, !.rejSid = st.sid],
                               "snap_resid", ClearedSid(Cache), now, TRUE))
       ELSE /\ SetCache(Cache)
            /\ Step(p, h, IF status = 200 /\ wellFormed
                          THEN Respond(st, 200, "none")
                          ELSE Respond(st, 500, "QuoteMedia API error"))
    /\ UNCHANGED <<retryVars, probeVars, tableVars, moreVars, now, credsSet>>

\* The retried getSnapQuotes response arrives.
SnapRefetchResponse(p, status, wellFormed) ==
    /\ h[p].pc = "snap_refetch"
    /\ Step(p, h, IF status = 200 /\ wellFormed
                  THEN Respond(h[p], 200, "none")
                  ELSE Respond(h[p], 500, "Failed to retry after authentication"))
    /\ UNCHANGED <<retryVars, probeVars, tableVars, moreVars, now, credsSet, cachedSid, sidExpiration, cachedDataToolToken, tokenExpiration>>

(* ---------------------------------------------------------------------- *)
(* tmx-quotemedia-proxy route: GET                                         *)
(* ---------------------------------------------------------------------- *)
ProxyStart(p) ==
    /\ CanStart(p)
    /\ Step(p, h, CallGetSid([Idle EXCEPT !.route = "proxy"], "proxy_sid", Cache, now, FALSE))
    /\ UNCHANGED <<retryVars, probeVars, tableVars, moreVars, now, credsSet, cachedSid, sidExpiration, cachedDataToolToken, tokenExpiration>>

\* The getMarketStats response arrives.
ProxyFetchResponse(p, status, parses) ==
    /\ h[p].pc = "proxy_fetch"
    /\ LET st == h[p]
           rej == [st EXCEPT !.rejStatus = status, !.rejSid = st.sid, !.rejTok = st.tok]
       IN Step(p, h, CASE status = 200 /\ parses -> Respond(st, 200, "none")
                       [] status = 200 /\ ~parses -> Respond(st, 502, "Failed to parse QuoteMedia API response")
                       [] status = 403 -> Respond(rej, 403, "QuoteMedia API access denied")
                       [] status = 401 -> Respond(rej, 401, "QuoteMedia API returned")
                       [] OTHER -> Respond(st, status, "QuoteMedia API returned"))
    /\ UNCHANGED <<retryVars, probeVars, tableVars, moreVars, now, credsSet, cachedSid, sidExpiration, cachedDataToolToken, tokenExpiration>>

(* ---------------------------------------------------------------------- *)
(* get-token route: GET                                                    *)
(* ---------------------------------------------------------------------- *)
GetTokenStart(p) ==
    /\ CanStart(p)
    /\ Step(p, h, CallGenToken([Idle EXCEPT !.route = "gettoken"], Cache, now))
    /\ UNCHANGED <<retryVars, probeVars, tableVars, moreVars, now, credsSet, cachedSid, sidExpiration, cachedDataToolToken, tokenExpiration>>

\* Date.now() advances.
Tick ==
    /\ now < MaxTicks * TickMs
    /\ now' = now + TickMs
    /\ NoGetReturned
    /\ UNCHANGED <<retryVars, probeVars, tableVars, moreVars, credsSet, cachedSid, sidExpiration, cachedDataToolToken,
                   tokenExpiration, sidRequests, tokenRequests, tokInvalidated,
                   started, h>>

\* Upstream answers to a data request: the status, and for a 200 whether the
\* body has the expected format.
DataOutcomes ==
    {[status |-> 200, wellFormed |-> TRUE], [status |-> 200, wellFormed |-> FALSE],
     [status |-> 401, wellFormed |-> FALSE], [status |-> 403, wellFormed |-> FALSE],
     [status |-> 500, wellFormed |-> FALSE]}

(* ---------------------------------------------------------------------- *)
(* Retry executors of api/halts: withRetry and fetchNasdaqHalts' loop      *)
(* ---------------------------------------------------------------------- *)
\* const delay = attempt * 1000
BackoffMs == 1000
Delay_Flat(attempt) == BackoffMs
Delay(attempt) == attempt * BackoffMs

\* for (let attempt = 1; attempt <= maxRetries; attempt++)
LoopCond_Exclusive(attempt, maxRetries) == attempt < maxRetries
LoopCond(attempt, maxRetries) == attempt <= maxRetries

\* if (attempt < maxRetries) { ... await new Promise(r => setTimeout(r, delay)) }
ShouldWait_Always(attempt, maxRetries) == TRUE
ShouldWait(attempt, maxRetries) == attempt < maxRetries

\* fetchNasdaqHalts: const maxRetries = 3
FhMaxRetries == 3

\* A withRetry execution: the loop variable, the attempts started (tries),
\* the timeout timers still armed and the fn() promises still pending (by
\* attempt number), lastError, the backoff delays slept so far, and how the
\* call ended: exit is "return" or "throw", result the value or the error.
WrIdle == [pc |-> "idle", maxRetries |-> 0, attempt |-> 0, tries |-> 0,
           timers |-> {}, running |-> {}, lastError |-> Null, delays |-> <<>>,
           exit |-> "none", result |-> Null]

\* withRetry's loop head for attempt a: the timer is armed and fn() is
\* called; after the loop, `throw lastError || new Error(...)`.
WrLoopHead(e, a) ==
    IF LoopCond(a, e.maxRetries)
    THEN [e EXCEPT !.pc = "racing", !.attempt = a, !.tries = e.tries + 1,
                   !.timers = e.timers \cup {a}, !.running = e.running \cup {a}]
    ELSE [e EXCEPT !.pc = "thrown", !.attempt = a, !.exit = "throw",
                   !.result = IF e.lastError # Null THEN e.lastError
                              ELSE <<"failed after attempts">>]

\* withRetry's catch block: the timer of the attempt is not cleared.
WrCatch(e, err) ==
    LET e1 == [e EXCEPT !.lastError = <<err>>] IN
    IF ShouldWait(e.attempt, e.maxRetries)
    THEN [e1 EXCEPT !.pc = "backoff", !.delays = Append(e.delays, Delay(e.attempt))]
    ELSE WrLoopHead(e1, e.attempt + 1)

\* withRetry(fn, functionName, symbol, maxRetries, timeoutMs) is called.
WrCall(n) ==
    /\ wr.pc = "idle"
    /\ wr' = WrLoopHead([WrIdle EXCEPT !.maxRetries = n], 1)
    /\ UNCHANGED <<cacheVars, probeVars, tableVars, moreVars, fh>>

\* fn() of the current attempt resolves first: clearTimeout, return result.
WrFnResolves ==
    /\ wr.pc = "racing"
    /\ wr' = [wr EXCEPT !.pc = "returned", !.exit = "return", !.result = <<"value">>,
                        !.timers = @ \ {wr.attempt}, !.running = @ \ {wr.attempt}]
    /\ UNCHANGED <<cacheVars, probeVars, tableVars, moreVars, fh>>

\* fn() of the current attempt rejects first.
WrFnRejects ==
    /\ wr.pc = "racing"
    /\ wr' = WrCatch([wr EXCEPT !.running = @ \ {wr.attempt}], "fn error")
    /\ UNCHANGED <<cacheVars, probeVars, tableVars, moreVars, fh>>

\* The timer of the current attempt fires first: controller.abort() rejects
\* the race with 'Request timeout'; fn() was not given the signal and goes on.
WrTimeout ==
    /\ wr.pc = "racing"
    /\ wr' = WrCatch([wr EXCEPT !.timers = @ \ {wr.attempt}], "Request timeout")
    /\ UNCHANGED <<cacheVars, probeVars, tableVars, moreVars, fh>>

\* The backoff sleep is over: attempt++ and the loop condition.
WrBackoffDone ==
    /\ wr.pc = "backoff"
    /\ wr' = WrLoopHead(wr, wr.attempt + 1)
    /\ UNCHANGED <<cacheVars, probeVars, tableVars, moreVars, fh>>

\* The timer of an attempt that is over fires: its race is already settled.
WrStaleTimer(k) ==
    /\ k \in wr.timers
    /\ ~(wr.pc = "racing" /\ k = wr.attempt)
    /\ wr' = [wr EXCEPT !.timers = @ \ {k}]
    /\ UNCHANGED <<cacheVars, probeVars, tableVars, moreVars, fh>>

\* fn() of an attempt that is over settles: its race is already settled.
WrLateSettle(k) ==
    /\ k \in wr.running
    /\ ~(wr.pc = "racing" /\ k = wr.attempt)
    /\ wr' = [wr EXCEPT !.running = @ \ {k}]
    /\ UNCHANGED <<cacheVars, probeVars, tableVars, moreVars, fh>>

\* A fetchNasdaqHalts execution.
\* The response of the halts GET handler: none yet.
NoHaltsResponse == [sent |-> FALSE, status |-> 0, success |-> FALSE, halts |-> Null,
                    errorType |-> "none"]

FhIdle == [pc |-> "idle", attempt |-> 0, tries |-> 0, timerArmed |-> FALSE,
           lastError |-> Null, delays |-> <<>>, exit |-> "none", result |-> Null,
           response |-> NoHaltsResponse]

\* GET of api/halts around `await fetchNasdaqHalts()`: a returned list is
\* sent as {success: true, halts, count}; the catch block answers a thrown
\* error with {success: false, halts: [], errorType} and status 503 or 500.
HaltsGet(e) ==
    CASE e.exit = "return" ->
            [e EXCEPT !.response = [sent |-> TRUE, status |-> 200, success |-> TRUE,
                                    halts |-> e.result, errorType |-> "none"]]
      [] e.exit = "throw" ->
            [e EXCEPT !.response = [sent |-> TRUE,
                                    status |-> IF e.result = <<"AbortError">> THEN 503 ELSE 500,
                                    success |-> FALSE, halts |-> <<"[]">>,
                                    errorType |-> IF e.result = <<"AbortError">>
                                                  THEN "TIMEOUT" ELSE "NETWORK_ERROR"]]
      [] OTHER -> e

\* fetchNasdaqHalts' loop head for attempt a: the 8 s timer is armed and the
\* request is sent; after the loop, `return []`.
FhLoopHead(e, a) ==
    IF LoopCond(a, FhMaxRetries)
    THEN [e EXCEPT !.pc = "fetching", !.attempt = a, !.tries = e.tries + 1,
                   !.timerArmed = TRUE]
    ELSE [e EXCEPT !.pc = "exhausted", !.attempt = a, !.exit = "return",
                   !.result = <<"[]">>]

\* fetchNasdaqHalts' catch block: the timer is cleared if still active.
FhCatch(e, err) ==
    LET e1 == [e EXCEPT !.lastError = <<err>>, !.timerArmed = FALSE] IN
    IF ShouldWait(e.attempt, FhMaxRetries)
    THEN [e1 EXCEPT !.pc = "backoff", !.delays = Append(e.delays, Delay(e.attempt))]
    ELSE FhLoopHead(e1, e.attempt + 1)

FhCall ==
    /\ fh.pc = "idle"
    /\ fh' = HaltsGet(FhLoopHead(FhIdle, 1))
    /\ UNCHANGED <<cacheVars, probeVars, tableVars, moreVars, wr>>

\* The response headers arrive: clearTimeout, then `if (!response.ok) throw`.
FhHeaders(ok) ==
    /\ fh.pc = "fetching"
    /\ fh' = IF ok
             THEN [fh EXCEPT !.pc = "reading", !.timerArmed = FALSE]
             ELSE HaltsGet(FhCatch(fh, "HTTP error"))
    /\ UNCHANGED <<cacheVars, probeVars, tableVars, moreVars, wr>>

\* fetch rejects with a network error.
FhFetchRejects ==
    /\ fh.pc = "fetching"
    /\ fh' = HaltsGet(FhCatch(fh, "network"))
    /\ UNCHANGED <<cacheVars, probeVars, tableVars, moreVars, wr>>

\* The 8 s timer fires: controller.abort() rejects fetch with an AbortError.
FhTimeout ==
    /\ fh.pc = "fetching"
    /\ fh.timerArmed
    /\ fh' = HaltsGet(FhCatch(fh, "AbortError"))
    /\ UNCHANGED <<cacheVars, probeVars, tableVars, moreVars, wr>>

\* response.text() settles: a body with json.result is parsed and the halts
\* of today are returned (possibly none); any other body, or a failed read,
\* throws into the catch block.
FhBody(outcome) ==
    /\ fh.pc = "reading"
    /\ fh' = HaltsGet(CASE outcome = "table" ->
                            [fh EXCEPT !.pc = "returned", !.exit = "return",
                                       !.result = <<"halts">>]
                         [] outcome = "no halts today" ->
                            [fh EXCEPT !.pc = "returned", !.exit = "return",
                                       !.result = <<"[]">>]
                         [] OTHER -> FhCatch(fh, outcome))
    /\ UNCHANGED <<cacheVars, probeVars, tableVars, moreVars, wr>>

FhBackoffDone ==
    /\ fh.pc = "backoff"
    /\ fh' = HaltsGet(FhLoopHead(fh, fh.attempt + 1))
    /\ UNCHANGED <<cacheVars, probeVars, tableVars, moreVars, wr>>

\* Outcomes of reading the response body.
BodyOutcomes == {"table", "no halts today", "Invalid JSON", "read error"}

(* ---------------------------------------------------------------------- *)
(* Sequential endpoint probes: market-data-api, realtime-data,             *)
(* quotestream-web and tmx-quotemedia-real GET                             *)
(* ---------------------------------------------------------------------- *)
\* The candidate lists, by the name of the array the handler iterates.
Loops == {"apiEndpoints", "qsDataEndpoints", "qsApiEndpoints",
          "alternativeEndpoints", "quoteMediaEndpoints"}

\* A response body by what the handlers look at: its first character,
\* whether JSON.parse accepts it, whether the content-type header includes
\* application/json, which quoted field name it contains (at most one), and
\* whether the parsed value has a truthy `error` member.
Body(first, parses, ctJson, key, error) ==
    [first |-> first, parses |-> parses, ctJson |-> ctJson, key |-> key, error |-> error]

NoBody == Body("", FALSE, FALSE, "none", FALSE)

Bodies ==
    {Body("{", TRUE, TRUE, "price", FALSE),    \* a JSON quote object
     Body("{", FALSE, TRUE, "price", FALSE),   \* truncated JSON
     Body("{", TRUE, TRUE, "market", FALSE),
     Body("{", TRUE, TRUE, "open", FALSE),
     Body("{", TRUE, TRUE, "symbol", FALSE),
     Body("{", TRUE, FALSE, "quote", FALSE),
     Body("[", TRUE, FALSE, "volume", FALSE),  \* a JSON array sent as text/plain
     Body(" ", TRUE, TRUE, "price", FALSE),    \* JSON after leading white space
     Body("{", TRUE, TRUE, "price", TRUE),     \* {"error": ..., "price": ...}
     Body("{", TRUE, TRUE, "none", FALSE),
     Body("<", FALSE, FALSE, "none", FALSE)}   \* an HTML page

\* What a candidate does when requested: fetch rejects, a non-2xx status,
\* or a 2xx response with a body.
Behaviours ==
    {[kind |-> "error", body |-> NoBody], [kind |-> "http", body |-> NoBody]}
       \cup {[kind |-> "ok", body |-> b] : b \in Bodies}

\* responseText.includes('"price"') || ... : the field names each handler
\* looks for.
MarketKeys(loop) ==
    CASE loop = "apiEndpoints" ->
            {"price", "last", "bid", "ask", "volume", "change", "open", "high", "low"}
      [] loop = "qsDataEndpoints" ->
            {"price", "last", "bid", "ask", "volume", "change", "quote", "market"}
      [] loop = "qsApiEndpoints" ->
            {"price", "last", "quote", "symbol", "bid", "ask"}
      [] OTHER -> {}

\* The condition under which a handler takes a 2xx body for market data.
Passes(loop, b) ==
    CASE loop = "apiEndpoints" ->
            b.key \in MarketKeys(loop) /\ b.first \in {"{", "["}
      [] loop = "qsDataEndpoints" ->
            (b.ctJson \/ b.first \in {"{", "["}) /\ b.key \in MarketKeys(loop)
      [] loop = "qsApiEndpoints" ->
            (b.ctJson \/ b.first = "{") /\ b.key \in MarketKeys(loop)
      [] loop = "alternativeEndpoints" -> b.ctJson
      [] OTHER -> b.first \in {"{", "["}

\* Whether the handler returns the candidate's payload: after the condition,
\* JSON.parse must succeed (market-data-api returns the raw text when it
\* does not), and the QuoteMedia loop also wants `qmData && !qmData.error`.
Returned(loop, b) ==
    /\ Passes(loop, b)
    /\ b.parses \/ loop = "apiEndpoints"
    /\ loop = "quoteMediaEndpoints" => ~b.error

\* Whether the loop body is wrapped in its own try/catch; the QuoteMedia
\* loop of tmx-quotemedia-real is inside one try around the whole loop.
CatchesPerCandidate_Never(loop) == FALSE
CatchesPerCandidate(loop) == loop # "quoteMediaEndpoints"

\* for (const endpoint of ...) : the candidate after candidate i.
NextCandidate_Skip(i) == i + 2
NextCandidate(i) == i + 1

\* The response the handler sends, reduced to the members a client can tell
\* responses apart by: success, whether quote data is present, the fallback
\* mark, the isRealData mark, the candidate whose payload it carries (raw
\* text or parsed), the candidate whose URL it reports (0: none), and
\* whether it has an error message and a stack trace of the exception.
NoProbeResponse ==
    [sent |-> FALSE, success |-> FALSE, hasData |-> FALSE, fallback |-> FALSE,
     isRealData |-> FALSE, payload |-> 0, raw |-> FALSE, url |-> 0,
     error |-> FALSE, stack |-> FALSE]

\* return NextResponse.json({success: true, data / quotes / rawData, ...})
AcceptedResponse(loop, i, b) ==
    [sent |-> TRUE, success |-> TRUE, hasData |-> TRUE, fallback |-> FALSE,
     isRealData |-> loop \in {"apiEndpoints", "qsDataEndpoints", "qsApiEndpoints"},
     payload |-> i, raw |-> ~b.parses,
     url |-> IF loop = "quoteMediaEndpoints" THEN 0 ELSE i,
     error |-> FALSE, stack |-> FALSE]

\* The response after the loop ended without a return.
NotFoundResponse(loop) ==
    CASE loop \in {"apiEndpoints", "qsDataEndpoints"} ->
            [NoProbeResponse EXCEPT !.sent = TRUE, !.success = TRUE]
      [] loop = "qsApiEndpoints" ->
            [NoProbeResponse EXCEPT !.sent = TRUE]
      [] loop = "quoteMediaEndpoints" ->
            [NoProbeResponse EXCEPT !.sent = TRUE, !.success = TRUE,
                                    !.hasData = TRUE, !.fallback = TRUE]
      [] OTHER -> NoProbeResponse

\* A probe: the loop, the candidate awaited, the candidates requested so
\* far in order, the verdict on the last 2xx body, the outcome, the response.
PrIdle == [pc |-> "idle", loop |-> "none", i |-> 0, requested |-> <<>>,
           verdict |-> [set |-> FALSE, body |-> NoBody, passed |-> FALSE],
           outcome |-> "none", response |-> NoProbeResponse]

\* The loop goes on with candidate i, or ends without a return.
Request(p, i) ==
    IF i \in 1..MaxCandidates
    THEN [p EXCEPT !.pc = "awaiting", !.i = i, !.requested = Append(p.requested, i)]
    ELSE [p EXCEPT !.pc = "done", !.outcome = "notfound",
                   !.response = NotFoundResponse(p.loop)]

\* The handler a loop belongs to.
HandlerOf(loop) ==
    CASE loop = "apiEndpoints" -> "market-data-api"
      [] loop = "qsDataEndpoints" -> "realtime-data"
      [] loop = "qsApiEndpoints" -> "quotestream-web"
      [] OTHER -> "tmx-quotemedia-real"

\* The response of a handler's outer catch: success false and the message
\* of the exception; tmx-quotemedia-real adds the first 500 characters of
\* its stack.
CaughtResponse(handler) ==
    [NoProbeResponse EXCEPT !.sent = TRUE, !.error = TRUE,
                            !.stack = (handler = "tmx-quotemedia-real")]

\* A handler fails before its probing loop (its authentication request
\* rejects or is refused, or no session id is found) and its outer catch
\* answers.
PrologueFails(loop) ==
    /\ pr.pc = "idle"
    /\ pr' = [PrIdle EXCEPT !.pc = "failed", !.loop = loop, !.outcome = "error",
                            !.response = CaughtResponse(HandlerOf(loop))]
    /\ UNCHANGED <<cacheVars, retryVars, tableVars, moreVars, env>>

\* A handler reaches its probing loop.
ProbeStart(loop) ==
    /\ pr.pc = "idle"
    /\ pr' = Request([PrIdle EXCEPT !.loop = loop], 1)
    /\ UNCHANGED <<cacheVars, retryVars, tableVars, moreVars, env>>

\* The awaited candidate answers (fetch, then the body of a 2xx response);
\* the handler decides and goes on to its next request or to its response.
ProbeResponse ==
    /\ pr.pc = "awaiting"
    /\ LET a == env[pr.i]
           seen == [pr EXCEPT !.verdict = [set |-> TRUE, body |-> a.body,
                                           passed |-> Passes(pr.loop, a.body)]]
       IN pr' = CASE a.kind = "error" ->
                       IF CatchesPerCandidate(pr.loop)
                       THEN Request(pr, NextCandidate(pr.i))
                       ELSE [pr EXCEPT !.pc = "done", !.outcome = "notfound",
                                       !.response = NotFoundResponse(pr.loop)]
                  [] a.kind = "http" -> Request(pr, NextCandidate(pr.i))
                  [] OTHER ->
                       IF Returned(pr.loop, a.body)
                       THEN [seen EXCEPT !.pc = "done", !.outcome = "accepted",
                                         !.response = AcceptedResponse(pr.loop, pr.i, a.body)]
                       ELSE Request(seen, NextCandidate(pr.i))
    /\ UNCHANGED <<cacheVars, retryVars, tableVars, moreVars, env>>

(* ---------------------------------------------------------------------- *)
(* Halt feed parser: parseNasdaqTable of api/halts                         *)
(* ---------------------------------------------------------------------- *)
\* A string is the sequence of its pieces (digits, "/", words); the empty
\* string is <<>>.
DigitStr == <<"0", "1", "2", "3", "4", "5", "6", "7", "8", "9">>

RECURSIVE Digits(_)
\* Number.prototype.toString() of a natural number.
Digits(n) == IF n < 10 THEN <<DigitStr[n + 1]>>
             ELSE Append(Digits(n \div 10), DigitStr[(n % 10) + 1])

\* .toString().padStart(2, '0')
PadStart2(n) == IF Len(Digits(n)) < 2 THEN <<"0">> \o Digits(n) ELSE Digits(n)

\* `${month+1 padded}/${date padded}/${fullYear}` of a Date.
TodayFormatted(today) ==
    PadStart2(today.month + 1) \o <<"/">> \o PadStart2(today.date)
       \o <<"/">> \o Digits(today.year)

\* A table cell: its text content and, per <div> in it, the text of the
\* anchors inside that div (empty when the div has none).
Cell(text, divs) == [text |-> text, divs |-> divs]

RECURSIVE TrimStart(_)
TrimStart(s) == IF s # <<>> /\ Head(s) = " " THEN TrimStart(Tail(s)) ELSE s

RECURSIVE TrimEnd(_)
TrimEnd(s) ==
    IF s # <<>> /\ s[Len(s)] = " " THEN TrimEnd(SubSeq(s, 1, Len(s) - 1)) ELSE s

\* String.prototype.trim()
Trim(s) == TrimEnd(TrimStart(s))

\* $(cell).text().trim()
CellValue(cell) == Trim(cell.text)

RECURSIVE JoinComma(_)
\* reasons.join(", ")
JoinComma(ss) ==
    IF ss = <<>> THEN <<>>
    ELSE IF Len(ss) = 1 THEN Head(ss)
    ELSE Head(ss) \o <<", ">> \o JoinComma(Tail(ss))

\* The reasons pushed for a cell: a.text().trim() of every div whose anchor
\* text is not empty.
Reasons(cell) ==
    SelectSeq([k \in 1..Len(cell.divs) |-> Trim(cell.divs[k])], LAMBDA r : r # <<>>)

\* if (j === 5): the column index that gets the reason-code handling.
ReasonColumn(headers, j) == j - 1 = 5

\* The value stored in rowData[headers[j]] for the cell of column j (1-based).
CellEntry(headers, row, j) ==
    IF ReasonColumn(headers, j) /\ Reasons(row[j]) # <<>>
    THEN JoinComma(Reasons(row[j]))
    ELSE CellValue(row[j])

\* rowData[name]: the entry of the last column whose header is name, the
\* empty (falsy) value when there is none.
RowData(headers, row, name) ==
    LET js == {j \in 1..Len(row) : j <= Len(headers) /\ headers[j] = name}
    IN IF js = {} THEN <<>>
       ELSE CellEntry(headers, row, CHOOSE j \in js : \A k \in js : k <= j)

\* isToday: some cell under a "Halt Date" header equals todayFormatted.
IsToday(headers, row, todayFormatted) ==
    \E j \in 1..Len(row) :
       j <= Len(headers) /\ headers[j] = "Halt Date"
          /\ CellValue(row[j]) = todayFormatted

\* if (isToday && rowData["Issue Symbol"])
KeepRow_AnyDay(isToday, symbol) == symbol # <<>>
KeepRow(isToday, symbol) == isToday /\ symbol # <<>>

\* value || "N/A"
OrNA(v) == IF v = <<>> THEN <<"N/A">> ELSE v

\* The HaltData pushed for a retained row (row: its position among the data
\* rows, kept for reference).
HaltOf(headers, row, i) ==
    [row |-> i,
     symbol |-> OrNA(RowData(headers, row, "Issue Symbol")),
     haltDate |-> OrNA(RowData(headers, row, "Halt Date")),
     reasonCodes |-> OrNA(RowData(headers, row, "Reason Codes"))]

RECURSIVE ParseRows(_, _, _, _)
\* The loop over the data rows from row i on.
ParseRows(headers, rows, todayFormatted, i) ==
    IF i > Len(rows) THEN <<>>
    ELSE LET rest == ParseRows(headers, rows, todayFormatted, i + 1)
         IN IF Len(rows[i]) = 0 THEN rest
            ELSE IF KeepRow(IsToday(headers, rows[i], todayFormatted),
                            RowData(headers, rows[i], "Issue Symbol"))
                 THEN <<HaltOf(headers, rows[i], i)>> \o rest
                 ELSE rest

\* findTableElement: whether a table element was found. A document nested
\* too deeply for the recursive search makes it raise instead.
FindTableElement(t) == t.kind \in {"no rows", "table"}

\* table.find("tr").length: the header row and the data rows.
TrCount(t) == IF t.kind = "table" THEN 1 + Len(t.rows) ELSE 0

\* The body of parseNasdaqTable's try block.
ParseBody(t) ==
    IF ~FindTableElement(t) THEN <<>>
    ELSE IF TrCount(t) = 0 THEN <<>>
    ELSE ParseRows(t.headers, t.rows, TodayFormatted(t.today), 1)

\* catch (error) { return [] }
OnParseError_Rethrow == [exit |-> "throw", data |-> <<>>]
OnParseError == [exit |-> "return", data |-> <<>>]

parseNasdaqTable(t) ==
    IF t.kind = "too deep" THEN OnParseError
    ELSE [exit |-> "return", data |-> ParseBody(t)]

\* The header row NASDAQ sends (first seven columns).
NasdaqHeaders ==
    <<"Halt Date", "Halt Time", "Issue Symbol", "Issue Name", "Market",
      "Reason Codes", "Pause Threshold Price">>

\* The header rows considered: NASDAQ's, with "Reason Codes" exchanged with
\* the column at position r.
HeaderRow(r) ==
    [j \in 1..Len(NasdaqHeaders) |->
        IF j = r THEN "Reason Codes"
        ELSE IF NasdaqHeaders[j] = "Reason Codes" THEN NasdaqHeaders[r]
        ELSE NasdaqHeaders[j]]

\* A date written MM/DD/YYYY, zero-padded or not (month: 1..12).
DateText(year, month, date, padded) ==
    LET two(n) == IF n < 10 /\ ~padded THEN <<DigitStr[n + 1]>>
                  ELSE <<DigitStr[(n \div 10) + 1], DigitStr[(n % 10) + 1]>>
    IN two(month) \o <<"/">> \o two(date) \o <<"/">> \o Digits(year)

\* The days on which the parser runs (month as Date.getMonth() gives it).
Todays == {[year |-> 2026, month |-> 0, date |-> 2],
           [year |-> 2026, month |-> 10, date |-> 13]}

\* The texts of a "Halt Date" cell: today zero-padded, the same between
\* spaces, today unpadded, and the last day of 2025.
DateCells(today) ==
    {DateText(today.year, today.month + 1, today.date, TRUE),
     <<" ">> \o DateText(today.year, today.month + 1, today.date, TRUE) \o <<" ">>,
     DateText(today.year, today.month + 1, today.date, FALSE),
     DateText(2025, 12, 31, TRUE)}

\* The "Reason Codes" cells: plain text, one <div><a>, two <div><a>.
ReasonCells ==
    {Cell(<<"T1">>, <<>>),
     Cell(<<"T1">>, <<<<"T1">>>>),
     Cell(<<"T1", "T12">>, <<<<"T1">>, <<"T12">>>>)}

\* A data row under the given header row.
DataRow(headers, dateText, symbol, reasonCell) ==
    [j \in 1..Len(headers) |->
        CASE headers[j] = "Halt Date" -> Cell(dateText, <<>>)
          [] headers[j] = "Issue Symbol" -> Cell(symbol, <<>>)
          [] headers[j] = "Reason Codes" -> reasonCell
          [] OTHER -> Cell(<<"x">>, <<>>)]

DataRows(headers, today) ==
    {DataRow(headers, d, y, c) :
        d \in DateCells(today), y \in {<<>>, <<"ABC">>}, c \in ReasonCells}

RECURSIVE SeqsUpTo(_, _)
\* The sequences over S of length at most n.
SeqsUpTo(S, n) ==
    IF n = 0 THEN {<<>>}
    ELSE LET shorter == SeqsUpTo(S, n - 1)
         IN shorter \cup {Append(q, x) : q \in shorter, x \in S}

\* The tables considered.
Tables ==
    UNION {{[kind |-> "table", today |-> t, headers |-> HeaderRow(r), rows |-> rs] :
               rs \in SeqsUpTo(DataRows(HeaderRow(r), t), MaxRows)} :
            t \in Todays, r \in 1..Len(NasdaqHeaders)}

\* The documents without a usable table: no table element, a table without
\* rows, and a document too deeply nested for findTableElement's search.
NoTables ==
    {[kind |-> k, today |-> t, headers |-> <<>>, rows |-> <<>>] :
        k \in {"no table", "no rows", "too deep"}, t \in Todays}

\* Before parseNasdaqTable is called.
TableIdle ==
    /\ tbl = [kind |-> "table", today |-> [year |-> 2026, month |-> 0, date |-> 2],
              headers |-> NasdaqHeaders, rows |-> <<>>]
    /\ parsed = Null
    /\ parseExit = "none"

\* fetchNasdaqHalts hands the table to parseNasdaqTable.
ParseCall ==
    /\ parsed = Null
    /\ parsed' = <<parseNasdaqTable(tbl).data>>
    /\ parseExit' = parseNasdaqTable(tbl).exit
    /\ UNCHANGED <<cacheVars, retryVars, probeVars, moreVars, tbl>>

(* ---------------------------------------------------------------------- *)
(* Symbol data: POST of api/halts and of the symbol route                  *)
(* ---------------------------------------------------------------------- *)
\* The independently fetched sources, by the field of symbolData they fill.
Sources == {"executives", "premarketLow", "previousClose", "isEtfEtn", "news", "secFiling"}

\* The two handlers: in api/halts every source runs under withRetry and
\* rejects when its retries are exhausted; in the symbol route every source
\* has its own retry loop and returns its own fallback value instead.
Variants == {"halts", "symbol"}

NoPostResponse == [sent |-> FALSE, status |-> 0, success |-> FALSE, data |-> Null]

PostIdle ==
    [pc |-> "idle", variant |-> "halts",
     settled |-> [s \in Sources |-> [status |-> "pending", value |-> "none"]],
     failed |-> {}, response |-> NoPostResponse]

\* How a source's promise settles: with the fetched value, or after its
\* last attempt failed.
SourceSettlement(variant, ok) ==
    IF ok THEN [status |-> "fulfilled", value |-> "fetched"]
    ELSE IF variant = "halts" THEN [status |-> "rejected", value |-> "none"]
    ELSE [status |-> "fulfilled", value |-> "fallback of the source"]

\* x.status === 'fulfilled' ? x.value : <default>
FieldOf(r) == IF r.status = "fulfilled" THEN r.value ELSE "default of POST"

\* The response built after Promise.allSettled.
Aggregate_All(settled) ==
    IF \E s \in Sources : settled[s].status = "rejected"
    THEN [sent |-> TRUE, status |-> 500, success |-> FALSE, data |-> Null]
    ELSE [sent |-> TRUE, status |-> 200, success |-> TRUE,
          data |-> <<[s \in Sources |-> settled[s].value]>>]
Aggregate(settled) ==
    [sent |-> TRUE, status |-> 200, success |-> TRUE,
     data |-> <<[s \in Sources |-> FieldOf(settled[s])]>>]

\* POST up to Promise.allSettled: a body that is not JSON, a missing symbol,
\* or the six sources started.
PostStart(variant, body) ==
    /\ post.pc = "idle"
    /\ post' =
          CASE body = "not json" ->
                  [post EXCEPT !.pc = "done", !.variant = variant,
                     !.response = [sent |-> TRUE, status |-> 500, success |-> FALSE, data |-> Null]]
            [] body = "no symbol" ->
                  [post EXCEPT !.pc = "done", !.variant = variant,
                     !.response = [sent |-> TRUE, status |-> 400, success |-> FALSE, data |-> Null]]
            [] OTHER -> [post EXCEPT !.pc = "waiting", !.variant = variant]
    /\ UNCHANGED <<cacheVars, retryVars, probeVars, tableVars, normVars, pollVars>>

\* One source's promise settles.
SourceSettles(s, ok) ==
    /\ post.pc = "waiting"
    /\ post.settled[s].status = "pending"
    /\ post' = [post EXCEPT !.settled[s] = SourceSettlement(post.variant, ok),
                            !.failed = IF ok THEN @ ELSE @ \cup {s}]
    /\ UNCHANGED <<cacheVars, retryVars, probeVars, tableVars, normVars, pollVars>>

\* All six have settled: POST builds symbolData and responds.
PostRespond ==
    /\ post.pc = "waiting"
    /\ \A s \in Sources : post.settled[s].status # "pending"
    /\ post' = [post EXCEPT !.pc = "done", !.response = Aggregate(post.settled)]
    /\ UNCHANGED <<cacheVars, retryVars, probeVars, tableVars, normVars, pollVars>>

(* ---------------------------------------------------------------------- *)
(* Quote normalizer: parseTMXMarketData of api/tmx-quotemedia-proxy        *)
(* ---------------------------------------------------------------------- *)
\* What JSON.parse makes of the text captured by a pattern:
\*   "no match"   the pattern does not match
\*   "bad json"   the captured text does not parse
\*   "array"      an array
\*   "quotes", "data", "results"   an object with an array of that name
\*   "other"      an object with none of these arrays
\* The records of an embedded array.
EmbeddedRecords == <<[symbol |-> "AAPL", last |-> 258, change |-> 1]>>

\* The four jsDataPatterns: the third captures [...], the others {...}.
PatternShapes(k) ==
    CASE k = 1 -> {"no match", "bad json", "quotes", "data", "results", "other"}
      [] k = 3 -> {"no match", "bad json", "array"}
      [] OTHER -> {"no match", "bad json", "quotes", "other"}

\* htmlText.match(/{[\s\S]*}/), parsed.
BraceShapes == {"no match", "bad json", "quotes", "data", "results", "other"}

\* A <tr>: the number of its <td> cells and the stripped, trimmed text of the
\* first three.
QuoteRows ==
    {[cells |-> 2, symbol |-> "AAPL", price |-> "258", change |-> ""],
     [cells |-> 3, symbol |-> "", price |-> "258", change |-> "1"],
     [cells |-> 3, symbol |-> "AAPL", price |-> "", change |-> "1"],
     [cells |-> 3, symbol |-> "Symbol", price |-> "Price", change |-> "Change"],
     [cells |-> 4, symbol |-> "AAPL", price |-> "258", change |-> "1"]}

\* htmlText.length: the sum of the lengths of the parts.
HtmlLength(embedded, brace, rows) ==
    LET n == Cardinality({k \in 1..4 : embedded[k] # "no match"})
    IN 40 * n + (IF brace # "no match" THEN 2 ELSE 0) + 30 * Len(rows)

\* The input strings considered. A text matched by a {...} pattern also
\* matches the brace pattern.
WellFormedHtml(t) ==
    (\E k \in {1, 2, 4} : t.embedded[k] # "no match") => t.brace # "no match"

HtmlTexts ==
    {t \in {[embedded |-> e, brace |-> b, rows |-> rs, length |-> HtmlLength(e, b, rs)] :
               e \in {f \in [1..4 -> UNION {PatternShapes(k) : k \in 1..4}] :
                         \A k \in 1..4 : f[k] \in PatternShapes(k)},
               b \in BraceShapes,
               rs \in SeqsUpTo(QuoteRows, MaxQuoteRows)} :
        WellFormedHtml(t)}

\* parseFloat(x) || 0
ParseFloatOr0(x) ==
    CASE x = "258" -> 258
      [] x = "1" -> 1
      [] OTHER -> 0

\* The array returned for a parsed embedded value, Null when the strategy
\* goes on: Array.isArray(jsonData), .quotes, .data and, with the
\* jsDataPatterns only, .results.
StructuredOf(shape, withResults) ==
    CASE shape \in {"array", "quotes", "data"} -> <<EmbeddedRecords>>
      [] shape = "results" /\ withResults -> <<EmbeddedRecords>>
      [] OTHER -> Null

RECURSIVE FromPatterns(_, _)
\* The loop over jsDataPatterns from pattern k on.
FromPatterns(embedded, k) ==
    IF k > Len(embedded) THEN Null
    ELSE IF StructuredOf(embedded[k], TRUE) # Null THEN StructuredOf(embedded[k], TRUE)
    ELSE FromPatterns(embedded, k + 1)

\* The record pushed for a table row.
RowQuote(row) ==
    [symbol |-> row.symbol, last |-> ParseFloatOr0(row.price),
     change |-> ParseFloatOr0(row.change), source |-> "TMX PowerStream"]

RECURSIVE FromRows(_)
\* The loop over the <tr> matches.
FromRows(rows) ==
    IF rows = <<>> THEN <<>>
    ELSE IF Head(rows).cells >= 3 /\ Head(rows).symbol # "" /\ Head(rows).price # ""
         THEN <<RowQuote(Head(rows))>> \o FromRows(Tail(rows))
         ELSE FromRows(Tail(rows))

\* The debug record returned when no table data was found.
Placeholder_None(t) == <<>>
Placeholder(t) ==
    <<[symbol |-> "DEBUG", last |-> 0, change |-> 0, source |-> "TMX PowerStream",
       rawHtmlLength |-> t.length,
       debug |-> "No parseable market data found in HTML response"]>>

\* parseTMXMarketData: how it ends and what it returns. Nothing in its try
\* block raises for a string, so its catch is not taken.
parseTMXMarketData(t) ==
    [exit |-> "return",
     value |->
        IF FromPatterns(t.embedded, 1) # Null THEN FromPatterns(t.embedded, 1)[1]
        ELSE IF StructuredOf(t.brace, FALSE) # Null THEN StructuredOf(t.brace, FALSE)[1]
        ELSE IF FromRows(t.rows) = <<>> THEN Placeholder(t)
        ELSE FromRows(t.rows)]

TmxIdle == [called |-> FALSE, input |-> Null, output |-> Null]

\* parseTMXMarketData is called on the text.
ParseTMX ==
    /\ ~tmx.called
    /\ tmx.input # Null
    /\ tmx' = [tmx EXCEPT !.called = TRUE,
                          !.output = <<parseTMXMarketData(tmx.input[1])>>]
    /\ UNCHANGED <<cacheVars, retryVars, probeVars, tableVars, postVars, pollVars, qm>>

(* ---------------------------------------------------------------------- *)
(* Quote normalizer: GET of api/tmx-quotemedia-proxy, upstream answered ok *)
(* ---------------------------------------------------------------------- *)
\* An upstream object: every member is absent (Null) or <<value>>.
Stock(key, pricedata, fundamental, symbol, last, price, eps) ==
    [key |-> key, pricedata |-> pricedata, fundamental |-> fundamental,
     symbol |-> symbol, last |-> last, price |-> price, eps |-> eps]

\* The objects of the vendor's results.quote: key, pricedata and fundamental
\* sub-objects with some members missing, no top-level aliases.
VendorStocks ==
    {Stock(k, pd, e, Null, Null, Null, Null) :
        k \in {Null, <<[symbol |-> Null]>>, <<[symbol |-> <<"AAPL">>]>>},
        pd \in {Null,
                <<[last |-> Null, change |-> Null, sharevolume |-> Null]>>,
                <<[last |-> <<258>>, change |-> Null, sharevolume |-> Null]>>,
                <<[last |-> <<258>>, change |-> <<1>>, sharevolume |-> <<1000>>]>>},
        e \in {Null, <<[eps |-> <<2>>]>>}}

\* The flat objects of the stock and array formats.
FlatStocks ==
    {Stock(Null, Null, Null, <<"MSFT">>, <<7>>, Null, <<2>>),
     Stock(Null, Null, Null, <<"MSFT">>, Null, <<7>>, Null),
     Stock(Null, Null, Null, Null, Null, Null, Null)}

\* The upstream bodies considered, by what JSON.parse makes of them.
Payloads ==
    {[kind |-> k, items |-> <<>>] :
        k \in {"not json", "null", "scalar", "object", "quote object"}}
      \cup {[kind |-> "quote", items |-> q] : q \in SeqsUpTo(VendorStocks, MaxQuotes)}
      \cup {[kind |-> k, items |-> <<x>>] : k \in {"stock", "array"}, x \in FlatStocks}

\* JavaScript truthiness of a numeric and of a string member.
Truthy(m) == m # Null /\ m[1] # 0
TruthyText(m) == m # Null /\ m[1] # ""

\* a || b
Or(a, b) == IF Truthy(a) THEN a ELSE b
OrText(a, b) == IF TruthyText(a) THEN a ELSE b

\* stock.x?.y
Member(sub, name) == IF sub = Null THEN Null ELSE sub[1][name]

\* parseFloat(m || 0) and parseInt(m || 0) of a numeric member.
NumberOr0_Unset(m) == IF Truthy(m) THEN m[1] ELSE -1
NumberOr0(m) == IF Truthy(m) THEN m[1] ELSE 0

\* One element of quotes: marketStats.map's callback, for the members
\* symbol, price, change, volume and eps (the top-level aliases of change
\* and volume are read the same way as those of price).
Transform(stock) ==
    [symbol |-> OrText(OrText(Member(stock.key, "symbol"), stock.symbol), <<"N/A">>)[1],
     price |-> NumberOr0(Or(Or(Member(stock.pricedata, "last"), stock.last), stock.price)),
     change |-> NumberOr0(Member(stock.pricedata, "change")),
     volume |-> NumberOr0(Member(stock.pricedata, "sharevolume")),
     eps |-> Or(Or(stock.eps, Member(stock.fundamental, "eps")), Null)]

NoQuoteResponse == [sent |-> FALSE, status |-> 0, success |-> Null, quotes |-> Null]

\* The response for an upstream body.
\*   unparsable text: 502 without quotes;
\*   null, and results.quote that is no array: a TypeError, caught by the
\*   handler's outer catch, 500;
\*   anything else: 200 with the transformed market stats.
NormalizeResponse(body) ==
    CASE body.kind = "not json" ->
            [sent |-> TRUE, status |-> 502, success |-> Null, quotes |-> Null]
      [] body.kind \in {"null", "quote object"} ->
            [sent |-> TRUE, status |-> 500, success |-> <<FALSE>>, quotes |-> Null]
      [] OTHER ->
            [sent |-> TRUE, status |-> 200, success |-> <<TRUE>>,
             quotes |-> <<[i \in 1..Len(body.items) |-> Transform(body.items[i])]>>]

QmIdle == [called |-> FALSE, body |-> Null, response |-> NoQuoteResponse]

\* response.text() settles: GET parses, transforms and responds.
GetNormalize ==
    /\ ~qm.called
    /\ qm.body # Null
    /\ qm' = [qm EXCEPT !.called = TRUE, !.response = NormalizeResponse(qm.body[1])]
    /\ UNCHANGED <<cacheVars, retryVars, probeVars, tableVars, postVars, pollVars, tmx>>

(* ---------------------------------------------------------------------- *)
(* Polling components: RealTimeQuotes (fetchQuotes), HaltsTable (fetchHalts)*)
(* ---------------------------------------------------------------------- *)
Components == {"RealTimeQuotes", "HaltsTable"}

\* The records of the response to request k that carries n of them.
RecordsOf(k, n) == [i \in 1..n |-> [response |-> k, index |-> i]]

\* What a request ends with: a response with n records, or a failure (HTTP
\* error, success: false, network error).
Completions == {[ok |-> TRUE, n |-> n] : n \in 0..MaxRecords} \cup {[ok |-> FALSE, n |-> 0]}

\* comp: the component ("none" before it is mounted); mounted; paused:
\* isPaused, or autoRefresh switched off; held: quotes or halts; loading and
\* error: the state of those names; isFetching: isFetchingRef; inflight:
\* requests not yet completed; aborted: requests whose controller was
\* aborted; issued: requests so far; lastApplied: the request whose response
\* was stored last; stale: requests in flight when polling was cancelled;
\* staleEffect: whether the completion of a stale request changed held,
\* loading or error; filter: the filter selection (marketSession, statType,
\* statTop, exchange, marketCategory), numbered by its changes; sent: per
\* request, the filter selection in its URL; debounce: the 600 ms timer of
\* the filter effect is armed.
UiIdle ==
    [comp |-> "none", mounted |-> FALSE, paused |-> FALSE, held |-> <<>>,
     loading |-> FALSE, error |-> FALSE, isFetching |-> FALSE, inflight |-> {},
     aborted |-> {}, issued |-> 0, lastApplied |-> 0, stale |-> {},
     staleEffect |-> FALSE, filter |-> 0, sent |-> <<>>, debounce |-> FALSE]

\* setQuotes(cleanedQuotes), setHalts(data.halts || [])
Store_Merge(held, records) == held \o records
Store(held, records) == records

\* A state setter of a component: React drops updates of an unmounted one.
SetState(u, old, new) == IF u.mounted THEN new ELSE old

\* fetchQuotes up to its fetch: nothing when paused or already fetching.
FetchQuotes(u) ==
    IF u.paused \/ u.isFetching THEN u
    ELSE [u EXCEPT !.isFetching = TRUE,
                   !.loading = SetState(u, @, TRUE),
                   !.error = SetState(u, @, FALSE),
                   !.aborted = @ \cup u.inflight,
                   !.inflight = @ \cup {u.issued + 1},
                   !.issued = @ + 1,
                   !.sent = Append(@, u.filter)]

\* fetchHalts up to its fetch.
FetchHalts(u) ==
    [u EXCEPT !.loading = SetState(u, @, TRUE),
              !.inflight = @ \cup {u.issued + 1},
              !.issued = @ + 1,
              !.sent = Append(@, u.filter)]

\* The filter effect of RealTimeQuotes runs: its 600 ms timer is armed.
ArmDebounce(u) == [u EXCEPT !.debounce = (u.comp = "RealTimeQuotes")]

Fetch(u) == IF u.comp = "RealTimeQuotes" THEN FetchQuotes(u) ELSE FetchHalts(u)

\* The component mounts: its effects run and issue the initial fetch.
Mount(c) ==
    /\ ui.comp = "none"
    /\ ui' = ArmDebounce(Fetch([ui EXCEPT !.comp = c, !.mounted = TRUE]))
    /\ UNCHANGED <<cacheVars, retryVars, probeVars, tableVars, postVars, normVars, stream>>

\* The refresh interval fires (HaltsTable: the countdown reaches zero while
\* autoRefresh is on), or the user asks for a refresh of the halts.
Refresh(manual) ==
    /\ ui.mounted
    /\ ui.issued < MaxFetches
    /\ manual => ui.comp = "HaltsTable"
    /\ ~manual => ~ui.paused
    /\ ui' = Fetch(ui)
    /\ UNCHANGED <<cacheVars, retryVars, probeVars, tableVars, postVars, normVars, stream>>

\* The user pauses or resumes the updates. The interval effect is cleaned up
\* and runs again, and with it its initial fetch. Requests in flight are
\* left alone.
TogglePause ==
    /\ ui.mounted
    /\ ui.issued < MaxFetches
    /\ ui' = ArmDebounce(Fetch([ui EXCEPT !.paused = ~ui.paused,
                                          !.stale = IF ui.paused THEN {} ELSE ui.inflight]))
    /\ UNCHANGED <<cacheVars, retryVars, probeVars, tableVars, postVars, normVars, stream>>

\* The user changes a filter of RealTimeQuotes. fetchQuotes is re-created,
\* so the interval effect is cleaned up and runs again, with its initial
\* fetch, and the filter effect re-arms its timer. A request in flight is
\* left alone: fetchQuotes returns at its guard before it reaches abort().
ChangeFilter ==
    /\ ui.mounted
    /\ ui.comp = "RealTimeQuotes"
    /\ ui.filter < MaxFilterChanges
    /\ ui.issued < MaxFetches
    /\ ui' = ArmDebounce(Fetch([ui EXCEPT !.filter = @ + 1]))
    /\ UNCHANGED <<cacheVars, retryVars, probeVars, tableVars, postVars, normVars, stream>>

\* The 600 ms timer of the filter effect fires:
\* if (!isPaused && isVisible) fetchQuotes()
DebounceFires ==
    /\ ui.mounted
    /\ ui.debounce
    /\ ui.issued < MaxFetches
    /\ ui' = [Fetch(ui) EXCEPT !.debounce = FALSE]
    /\ UNCHANGED <<cacheVars, retryVars, probeVars, tableVars, postVars, normVars, stream>>

\* The component unmounts. RealTimeQuotes marks itself unmounted, aborts the
\* pending request, clears its timers and its state; HaltsTable only clears
\* its interval.
Unmount ==
    /\ ui.mounted
    /\ ui' = IF ui.comp = "RealTimeQuotes"
             THEN [ui EXCEPT !.mounted = FALSE, !.aborted = @ \cup ui.inflight,
                             !.held = <<>>, !.error = FALSE, !.stale = ui.inflight,
                             !.debounce = FALSE]
             ELSE [ui EXCEPT !.mounted = FALSE, !.stale = ui.inflight]
    /\ UNCHANGED <<cacheVars, retryVars, probeVars, tableVars, postVars, normVars, stream>>

\* fetchQuotes from its fetch on, for request k ending with c.
QuotesCompletion(u, k, c) ==
    LET stored == IF k \notin u.aborted /\ c.ok /\ u.mounted
                  THEN [u EXCEPT !.held = Store(@, RecordsOf(k, c.n)), !.lastApplied = k]
                  ELSE IF k \notin u.aborted /\ ~c.ok
                  THEN [u EXCEPT !.error = SetState(u, @, TRUE)]
                  ELSE u
    IN [stored EXCEPT !.isFetching = FALSE,
                      !.loading = SetState(u, @, FALSE),
                      !.inflight = @ \ {k}]

\* fetchHalts from its fetch on, for request k ending with c.
HaltsCompletion(u, k, c) ==
    LET stored == IF c.ok /\ u.mounted
                  THEN [u EXCEPT !.held = Store(@, RecordsOf(k, c.n)), !.lastApplied = k]
                  ELSE u
    IN [stored EXCEPT !.loading = SetState(u, @, FALSE), !.inflight = @ \ {k}]

\* A request completes.
Completion(k, c) ==
    /\ k \in ui.inflight
    /\ LET after == IF ui.comp = "RealTimeQuotes" THEN QuotesCompletion(ui, k, c)
                    ELSE HaltsCompletion(ui, k, c)
       IN ui' = [after EXCEPT
                    !.staleEffect =
                       @ \/ (/\ k \in ui.stale
                             /\ <<after.held, after.loading, after.error>>
                                   # <<ui.held, ui.loading, ui.error>>)]
    /\ UNCHANGED <<cacheVars, retryVars, probeVars, tableVars, postVars, normVars, stream>>

(* ---------------------------------------------------------------------- *)
(* TMXWebStreamer: startStreaming, startQuoteMediaStream, startAPIPolling, *)
(* stopStreaming                                                           *)
(* ---------------------------------------------------------------------- *)
\* hasSession: the sessionId prop is set; hasWsUrls, hasApi: tmxData lists
\* WebSocket URLs, API endpoints; isStreaming: the state of that name;
\* tokenPending: startStreaming awaits fetchFreshToken; made: intervals and
\* sockets created so far, numbered in order, kinds[i] the kind of the i-th;
\* intervals: the intervals not cleared; intervalRef: intervalRef.current;
\* sockets: the WebSockets not closed; wsRef: wsRef.current; pending: the
\* intervals whose callback awaits its fetch; starts, ticks: startStreaming
\* calls and interval callbacks so far; autoTimers: armed timers of the
\* auto-start effect; stopped: stopStreaming ran and nothing was started
\* since; addedAfterStop: a poll added stream data while stopped.
StreamIdle ==
    [hasSession |-> FALSE, hasWsUrls |-> FALSE, hasApi |-> TRUE,
     isStreaming |-> FALSE, tokenPending |-> FALSE, made |-> 0, kinds |-> <<>>,
     intervals |-> {}, intervalRef |-> Null, sockets |-> {}, wsRef |-> Null,
     pending |-> {}, starts |-> 0, ticks |-> 0, autoTimers |-> 0,
     stopped |-> FALSE, addedAfterStop |-> FALSE]

\* intervalRef.current = setInterval(...): the handle held before is
\* overwritten, its interval is not cleared.
NewInterval(w, kind) ==
    [w EXCEPT !.made = @ + 1, !.kinds = Append(@, kind),
              !.intervals = @ \cup {w.made + 1}, !.intervalRef = <<w.made + 1>>]

\* wsRef.current = new WebSocket(wsUrl, [...])
NewSocket(w) ==
    [w EXCEPT !.made = @ + 1, !.kinds = Append(@, "socket"),
              !.sockets = @ \cup {w.made + 1}, !.wsRef = <<w.made + 1>>]

\* startQuoteMediaStream: returns at once without a sessionId.
StartQuoteMediaStream(w) == IF w.hasSession THEN NewInterval(w, "qm") ELSE w

\* startAPIPolling(apiEndpoints): returns at once without endpoints.
StartAPIPolling(w) == IF w.hasApi THEN NewInterval(w, "api") ELSE w

\* The auto-start effect, which depends on [sessionId, isStreaming]: after a
\* render in which isStreaming went back to false it arms a 1.5 s timer.
Rendered(old, new) ==
    IF new.hasSession /\ old.isStreaming /\ ~new.isStreaming
    THEN [new EXCEPT !.autoTimers = @ + 1]
    ELSE new

\* The user clicks Start Streaming (shown while isStreaming is false):
\* startStreaming up to `await fetchFreshToken()`.
StartStreaming ==
    /\ ~stream.isStreaming
    /\ ~stream.tokenPending
    /\ stream.hasWsUrls \/ stream.hasApi
    /\ stream.starts < MaxStarts
    /\ stream' = [stream EXCEPT !.tokenPending = TRUE, !.starts = @ + 1]
    /\ UNCHANGED <<cacheVars, retryVars, probeVars, tableVars, postVars, normVars, ui>>

\* startStreaming after the token fetch: setIsStreaming(true),
\* startQuoteMediaStream(freshToken), then the WebSocket (or, when its
\* constructor throws or no URL is known, startAPIPolling).
TokenFetched(ok, constructed) ==
    /\ stream.tokenPending
    /\ stream.made + 2 <= MaxHandles
    /\ stream' =
          IF ~ok THEN [stream EXCEPT !.tokenPending = FALSE]
          ELSE LET w == StartQuoteMediaStream(
                           [stream EXCEPT !.tokenPending = FALSE, !.isStreaming = TRUE,
                                          !.stopped = FALSE])
               IN IF stream.hasWsUrls /\ constructed THEN NewSocket(w)
                  ELSE StartAPIPolling(w)
    /\ UNCHANGED <<cacheVars, retryVars, probeVars, tableVars, postVars, normVars, ui>>

\* onerror of a WebSocket: startAPIPolling(apiEndpoints).
WsError(k) ==
    /\ k \in stream.sockets
    /\ stream.made < MaxHandles
    /\ stream' = StartAPIPolling(stream)
    /\ UNCHANGED <<cacheVars, retryVars, probeVars, tableVars, postVars, normVars, ui>>

\* onclose of a WebSocket closed by the peer. Its `if (isStreaming)` reads
\* the isStreaming of the render whose Start button was clicked, which is
\* false: nothing is scheduled.
WsClose(k) ==
    /\ k \in stream.sockets
    /\ stream' = [stream EXCEPT !.sockets = @ \ {k}]
    /\ UNCHANGED <<cacheVars, retryVars, probeVars, tableVars, postVars, normVars, ui>>

\* An interval fires: its callback runs up to its fetch.
PollTick(k) ==
    /\ k \in stream.intervals
    /\ k \notin stream.pending
    /\ stream.ticks < MaxPollTicks
    /\ stream' = [stream EXCEPT !.pending = @ \cup {k}, !.ticks = @ + 1]
    /\ UNCHANGED <<cacheVars, retryVars, probeVars, tableVars, postVars, normVars, ui>>

\* What the fetch of an interval callback ends with.
PollOutcomes == {"quotes", "empty", "error"}

\* The callback of interval k goes on after its fetch: quotes are added to
\* streamData; the QuoteMedia callback answers an error with
\* setIsStreaming(false), the API polling callback only logs it.
PollResponse(k, outcome) ==
    /\ k \in stream.pending
    /\ stream' =
          Rendered(stream,
             CASE outcome = "quotes" ->
                     [stream EXCEPT !.pending = @ \ {k},
                                    !.addedAfterStop = @ \/ stream.stopped]
               [] outcome = "error" /\ stream.kinds[k] = "qm" ->
                     [stream EXCEPT !.pending = @ \ {k}, !.isStreaming = FALSE]
               [] OTHER -> [stream EXCEPT !.pending = @ \ {k}])
    /\ UNCHANGED <<cacheVars, retryVars, probeVars, tableVars, postVars, normVars, ui>>

\* The user clicks Stop Streaming (shown while isStreaming is true):
\* stopStreaming closes wsRef.current and clears intervalRef.current.
StopStreaming ==
    /\ stream.isStreaming
    /\ stream' =
          Rendered(stream,
             [stream EXCEPT
                 !.isStreaming = FALSE,
                 !.sockets = IF stream.wsRef # Null THEN @ \ {stream.wsRef[1]} ELSE @,
                 !.wsRef = Null,
                 !.intervals = IF stream.intervalRef # Null
                               THEN @ \ {stream.intervalRef[1]} ELSE @,
                 !.intervalRef = Null,
                 !.stopped = TRUE])
    /\ UNCHANGED <<cacheVars, retryVars, probeVars, tableVars, postVars, normVars, ui>>

\* A timer of the auto-start effect fires: setIsStreaming(true) and
\* startQuoteMediaStream(), whatever isStreaming is by now.
AutoStart ==
    /\ stream.autoTimers > 0
    /\ stream.made < MaxHandles
    /\ stream' = StartQuoteMediaStream(
                    [stream EXCEPT !.autoTimers = @ - 1, !.isStreaming = TRUE,
                                   !.stopped = FALSE])
    /\ UNCHANGED <<cacheVars, retryVars, probeVars, tableVars, postVars, normVars, ui>>

\* The later sections at rest.
MoreIdle ==
    /\ post = PostIdle
    /\ tmx = TmxIdle
    /\ qm = QmIdle
    /\ ui = UiIdle
    /\ stream = StreamIdle

\* Everything outside the halt table and the later sections at rest.
CoreIdle ==
    /\ now = 0
    /\ credsSet = TRUE
    /\ cachedSid = Null
    /\ sidExpiration = Null
    /\ cachedDataToolToken = Null
    /\ tokenExpiration = Null
    /\ sidRequests = 0
    /\ tokenRequests = 0
    /\ tokInvalidated = FALSE
    /\ started = 0
    /\ lastResponse = NoResponse
    /\ lastSidGet = NoObs
    /\ lastInnerSidGet = NoObs
    /\ lastTokenGet = NoObs
    /\ h = [p \in Procs |-> Idle]
    /\ wr = WrIdle
    /\ fh = FhIdle
    /\ pr = PrIdle
    /\ env = [i \in 1..MaxCandidates |-> [kind |-> "error", body |-> NoBody]]

Init ==
    /\ now = 0
    /\ credsSet \in BOOLEAN
    /\ cachedSid = Null
    /\ sidExpiration = Null
    /\ cachedDataToolToken = Null
    /\ tokenExpiration = Null
    /\ sidRequests = 0
    /\ tokenRequests = 0
    /\ tokInvalidated = FALSE
    /\ started = 0
    /\ lastResponse = NoResponse
    /\ lastSidGet = NoObs
    /\ lastInnerSidGet = NoObs
    /\ lastTokenGet = NoObs
    /\ h = [p \in Procs |-> Idle]
    /\ wr = WrIdle
    /\ fh = FhIdle
    /\ pr = PrIdle
    /\ env = [i \in 1..MaxCandidates |-> [kind |-> "error", body |-> NoBody]]
    /\ TableIdle
    /\ MoreIdle

Next ==
    \/ \E p \in Procs : SnapStart(p)
    \/ \E p \in Procs : ProxyStart(p)
    \/ \E p \in Procs : GetTokenStart(p)
    \/ \E p \in Procs, o \in AuthOutcomes : SidResponse(p, o)
    \/ \E p \in Procs, o \in AuthOutcomes : TokenResponse(p, o)
    \/ \E p \in Procs, o \in DataOutcomes : SnapFetchResponse(p, o.status, o.wellFormed)
    \/ \E p \in Procs, o \in DataOutcomes : SnapRefetchResponse(p, o.status, o.wellFormed)
    \/ \E p \in Procs, o \in DataOutcomes : ProxyFetchResponse(p, o.status, o.wellFormed)
    \/ ClearCachedToken
    \/ Tick

Spec == Init /\ [][Next]_vars

\* The retry executors on their own.
NextRetry ==
    \/ \E n \in 1..MaxRetriesArg : WrCall(n)
    \/ WrFnResolves
    \/ WrFnRejects
    \/ WrTimeout
    \/ WrBackoffDone
    \/ \E k \in 1..MaxRetriesArg : WrStaleTimer(k)
    \/ \E k \in 1..MaxRetriesArg : WrLateSettle(k)
    \/ FhCall
    \/ \E ok \in BOOLEAN : FhHeaders(ok)
    \/ FhFetchRejects
    \/ FhTimeout
    \/ \E o \in BodyOutcomes : FhBody(o)
    \/ FhBackoffDone

SpecRetry == Init /\ [][NextRetry]_vars

\* The endpoint probes on their own, for every way the candidates can answer.
InitProbe ==
    /\ now = 0
    /\ credsSet = TRUE
    /\ cachedSid = Null
    /\ sidExpiration = Null
    /\ cachedDataToolToken = Null
    /\ tokenExpiration = Null
    /\ sidRequests = 0
    /\ tokenRequests = 0
    /\ tokInvalidated = FALSE
    /\ started = 0
    /\ lastResponse = NoResponse
    /\ lastSidGet = NoObs
    /\ lastInnerSidGet = NoObs
    /\ lastTokenGet = NoObs
    /\ h = [p \in Procs |-> Idle]
    /\ wr = WrIdle
    /\ fh = FhIdle
    /\ pr = PrIdle
    /\ env \in [1..MaxCandidates -> Behaviours]
    /\ TableIdle
    /\ MoreIdle

NextProbe ==
    \/ \E loop \in Loops : PrologueFails(loop)
    \/ \E loop \in Loops : ProbeStart(loop)
    \/ ProbeResponse

SpecProbe == InitProbe /\ [][NextProbe]_vars

\* parseNasdaqTable on its own, for every table considered.
InitParse ==
    /\ CoreIdle
    /\ MoreIdle
    /\ tbl \in Tables \cup NoTables
    /\ parsed = Null
    /\ parseExit = "none"

NextParse == ParseCall

SpecParse == InitParse /\ [][NextParse]_vars

\* The POST handlers on their own.
InitPost == CoreIdle /\ TableIdle /\ MoreIdle

NextPost ==
    \/ \E v \in Variants, b \in {"not json", "no symbol", "symbol"} : PostStart(v, b)
    \/ \E s \in Sources, ok \in BOOLEAN : SourceSettles(s, ok)
    \/ PostRespond

SpecPost == InitPost /\ [][NextPost]_vars

\* The quote normalizer on its own.
InitNorm ==
    /\ CoreIdle
    /\ TableIdle
    /\ post = PostIdle
    /\ tmx \in {[called |-> FALSE, input |-> <<t>>, output |-> Null] : t \in HtmlTexts}
    /\ qm = QmIdle
    /\ ui = UiIdle
    /\ stream = StreamIdle

NextNorm == ParseTMX

SpecNorm == InitNorm /\ [][NextNorm]_vars

\* The proxy GET's normalization on its own.
InitQuotes ==
    /\ CoreIdle
    /\ TableIdle
    /\ post = PostIdle
    /\ tmx = TmxIdle
    /\ qm \in {[called |-> FALSE, body |-> <<b>>, response |-> NoQuoteResponse] : b \in Payloads}
    /\ ui = UiIdle
    /\ stream = StreamIdle

NextQuotes == GetNormalize

SpecQuotes == InitQuotes /\ [][NextQuotes]_vars

\* The polling components on their own.
InitPoll == CoreIdle /\ TableIdle /\ MoreIdle

NextPoll ==
    \/ \E c \in Components : Mount(c)
    \/ \E manual \in BOOLEAN : Refresh(manual)
    \/ TogglePause
    \/ ChangeFilter
    \/ DebounceFires
    \/ Unmount
    \/ \E k \in 1..MaxFetches, c \in Completions : Completion(k, c)

SpecPoll == InitPoll /\ [][NextPoll]_vars

\* A mounted TMXWebStreamer whose stream was analysed: with or without a
\* sessionId, with WebSocket URLs or API endpoints or both; the auto-start
\* effect has run once.
InitStream ==
    /\ CoreIdle /\ TableIdle
    /\ post = PostIdle /\ tmx = TmxIdle /\ qm = QmIdle /\ ui = UiIdle
    /\ \E s, w, a \in BOOLEAN :
          /\ w \/ a
          /\ stream = [StreamIdle EXCEPT !.hasSession = s, !.hasWsUrls = w, !.hasApi = a,
                                         !.autoTimers = IF s THEN 1 ELSE 0]

NextStream ==
    \/ StartStreaming
    \/ \E ok, constructed \in BOOLEAN : TokenFetched(ok, constructed)
    \/ \E k \in 1..MaxHandles : WsError(k)
    \/ \E k \in 1..MaxHandles : WsClose(k)
    \/ \E k \in 1..MaxHandles : PollTick(k)
    \/ \E k \in 1..MaxHandles, o \in PollOutcomes : PollResponse(k, o)
    \/ StopStreaming
    \/ AutoStart

SpecStream == InitStream /\ [][NextStream]_vars

(* ---------------------------------------------------------------------- *)
(* Claims about the credential cache                                       *)
(* ---------------------------------------------------------------------- *)
SidInFlight == {p \in Procs : h[p].pc \in SidAwaitPcs}
TokenInFlight == {p \in Procs : h[p].pc \in TokAwaitPcs}

\* C1: single-flight refresh: at most one authentication request of each
\* kind (SID, Token) is in flight at any time.
C1_SingleFlight ==
    /\ Cardinality(SidInFlight) <= 1
    /\ Cardinality(TokenInFlight) <= 1

\* The observations of the getQuoteMediaSid returns of the last segment.
SidGets == {lastSidGet, lastInnerSidGet}

\* C2: a get that starts while the cached credential of its kind is within
\* its TTL returns the cached value and issues no authentication request.
C2_CachedWithinTtl ==
    /\ \A o \in SidGets : (o.set /\ o.wasLive) => (o.net = 0 /\ o.val = cachedSid)
    /\ (lastTokenGet.set /\ lastTokenGet.wasLive)
          => (lastTokenGet.net = 0 /\ lastTokenGet.val = cachedDataToolToken)

\* C2 witness: one segment in which a SID get and a Token get were both
\* answered from the live cache.
C2_Witness ==
    /\ lastSidGet.set /\ lastSidGet.wasLive /\ lastSidGet.net = 0
    /\ lastTokenGet.set /\ lastTokenGet.wasLive /\ lastTokenGet.net = 0

\* C3: the first get of a kind that starts after an invalidate of that kind
\* performs exactly one refresh (one authentication request), not zero.
C3_OneRefreshAfterInvalidate ==
    /\ (lastSidGet.set /\ lastSidGet.afterInv) => lastSidGet.net = 1
    /\ (lastTokenGet.set /\ lastTokenGet.afterInv) => lastTokenGet.net = 1

\* C4: last invalidate wins: a SID refresh during which clearCachedSid ran
\* does not leave its credential installed in the cache when it completes.
C4_LastInvalidateWins ==
    \A o \in SidGets : ~(o.set /\ o.stale /\ cachedSid = o.val)

\* C5: a get never returns a cached credential at or after its expiresAt,
\* expiresAt is the store time plus 60 minutes (SID) or 30 minutes (Token),
\* and a get that finds no usable credential refreshes before it returns.
C5_NeverServeExpired ==
    /\ \A o \in SidGets \cup {lastTokenGet} :
          /\ (o.set /\ o.net = 0) => o.usable
          /\ (o.set /\ ~o.wasLive) => o.net = 1
    /\ \A o \in SidGets :
          (o.set /\ o.net = 1)
             => (cachedSid = o.val /\ sidExpiration = <<now + 60 * 60 * 1000>>)
    /\ (lastTokenGet.set /\ lastTokenGet.net = 1)
          => (cachedDataToolToken = lastTokenGet.val
              /\ tokenExpiration = <<now + 30 * 60 * 1000>>)

\* C5 witness: a getQuoteMediaSid call found an expired SID in the cache and
\* returned a refreshed one.
C5_Witness ==
    lastSidGet.set /\ lastSidGet.sawExpired /\ lastSidGet.net = 1

\* C6: a handler whose downstream call was rejected with 401/403 responds
\* only with the rejected credentials no longer in the cache.
C6_InvalidateOnReject ==
    (lastResponse.sent /\ lastResponse.rejStatus \in {401, 403})
       => /\ cachedSid # lastResponse.rejSid
          /\ lastResponse.rejTok # Null => cachedDataToolToken # lastResponse.rejTok

\* C7: when a handler responds that session authentication or token
\* derivation failed, no SID and no Token are cached.
C7_AuthFailureInvalidates ==
    (lastResponse.sent /\ lastResponse.errorType \in {"AUTH_FAILED", "TOKEN_FAILED"})
       => (cachedSid = Null /\ cachedDataToolToken = Null)

(* ---------------------------------------------------------------------- *)
(* Claims about the retry executors                                        *)
(* ---------------------------------------------------------------------- *)
\* The execution ended after its last attempt failed.
WrExhausted == wr.pc = "thrown"
FhExhausted == fh.pc = "exhausted"

\* C8: a retry execution with maxAttempts = N never starts more than N
\* attempts, and one that ends because every attempt failed or timed out
\* has started exactly N attempts and neither waits nor retries any more.
C8_ExactlyNAttempts ==
    /\ wr.tries <= wr.maxRetries
    /\ fh.tries <= 3
    /\ WrExhausted => wr.tries = wr.maxRetries
    /\ FhExhausted => fh.tries = 3
    /\ wr.pc = "backoff" => wr.tries < wr.maxRetries
    /\ fh.pc = "backoff" => fh.tries < 3

\* C8 witness: withRetry with the largest maxRetries and fetchNasdaqHalts
\* have both ended after all their attempts failed.
C8_Witness ==
    /\ WrExhausted /\ wr.maxRetries = MaxRetriesArg /\ wr.tries = MaxRetriesArg
    /\ FhExhausted /\ fh.tries = 3

\* C9: when all attempts are exhausted the retry executor returns the last
\* error to its caller as a result value and does not throw.
C9_ReturnsLastError ==
    /\ WrExhausted => (wr.exit = "return" /\ wr.result = wr.lastError)
    /\ FhExhausted => (fh.exit = "return" /\ fh.result = fh.lastError)

\* The backoff waits of an execution up to now are 1 * 1000, 2 * 1000, ...
\* one after every failed attempt but the last, none after a success.
WaitsAsClaimed(e, maxAttempts, trying) ==
    /\ \A k \in 1..Len(e.delays) : e.delays[k] = k * 1000
    /\ e.pc \in trying => (Len(e.delays) = e.attempt - 1 /\ e.tries = e.attempt)
    /\ e.pc = "backoff" => (Len(e.delays) = e.attempt /\ e.attempt < maxAttempts)
    /\ e.pc = "returned" => (Len(e.delays) = e.attempt - 1 /\ e.tries = e.attempt)
    /\ e.pc \in {"thrown", "exhausted"} => Len(e.delays) = maxAttempts - 1

\* C10: after a failed attempt k < maxAttempts the executor waits k * 1000 ms
\* before attempt k + 1, after the failure of the last attempt it does not
\* wait, and a successful attempt ends the execution without attempt or wait.
C10_LinearBackoff ==
    /\ WaitsAsClaimed(wr, wr.maxRetries, {"racing"})
    /\ WaitsAsClaimed(fh, 3, {"fetching", "reading"})

\* C10 witness: withRetry succeeded on its third attempt after waiting
\* 1000 ms and 2000 ms, and fetchNasdaqHalts failed three times after
\* waiting 1000 ms and 2000 ms.
C10_Witness ==
    /\ wr.pc = "returned" /\ wr.attempt = 3 /\ wr.delays = <<1000, 2000>>
    /\ FhExhausted /\ fh.delays = <<1000, 2000>>

\* C11: when the timeout timer of an attempt fires first, the in-flight
\* action of that attempt is cancelled: while an attempt is racing, no fn()
\* of an earlier attempt is still pending.
C11_TimeoutCancelsAction ==
    wr.pc = "racing" => wr.running \subseteq {wr.attempt}

\* C12: every suspension on a network call is bounded by an armed timeout:
\* fetchNasdaqHalts never awaits the response headers or the response body
\* with no timer armed.
C12_BoundedSuspension ==
    fh.pc \in {"fetching", "reading"} => fh.timerArmed

(* ---------------------------------------------------------------------- *)
(* Claims about the endpoint probes                                        *)
(* ---------------------------------------------------------------------- *)
\* Candidate i, if requested by this loop, answers with a payload the
\* handler returns.
Succeeds(loop, i) == env[i].kind = "ok" /\ Returned(loop, env[i].body)

\* The candidates requested so far, as a set.
Requested == {pr.requested[k] : k \in 1..Len(pr.requested)}

\* C13: in the probes of market-data-api, realtime-data and quotestream-web
\* no candidate after the first succeeding one is ever requested, and the
\* finished probe returns the payload of the first succeeding candidate
\* (with [A fails, B succeeds, C succeeds]: B's payload, C never requested).
C13_StopsAtFirstSuccess ==
    pr.loop \in {"apiEndpoints", "qsDataEndpoints", "qsApiEndpoints"} =>
       /\ \A k \in Requested : \A j \in 1..(k - 1) : ~Succeeds(pr.loop, j)
       /\ pr.pc = "done" =>
             \A i \in 1..MaxCandidates :
                (Succeeds(pr.loop, i) /\ \A j \in 1..(i - 1) : ~Succeeds(pr.loop, j))
                   => (pr.outcome = "accepted" /\ pr.response.payload = i)

\* C13 witness: A fails, B and C would both succeed; the probe is over, it
\* returned B's payload and requested only A and B.
C13_Witness ==
    /\ pr.pc = "done" /\ pr.loop = "qsDataEndpoints"
    /\ ~Succeeds(pr.loop, 1) /\ Succeeds(pr.loop, 2) /\ Succeeds(pr.loop, 3)
    /\ pr.response.payload = 2 /\ pr.requested = <<1, 2>>

\* C14: candidates are requested strictly in declared order, each at most
\* once, and candidate i + 1 only after candidate i completed without being
\* returned.
C14_DeclaredOrder ==
    /\ \A k \in 1..Len(pr.requested) : pr.requested[k] = k
    /\ pr.pc = "awaiting" =>
          /\ pr.i = Len(pr.requested)
          /\ \A j \in 1..(pr.i - 1) : ~Succeeds(pr.loop, j)

\* C14 witness: the alternativeEndpoints loop has requested its candidates
\* 1, 2, 3 in that order.
C14_Witness ==
    pr.loop = "alternativeEndpoints" /\ pr.requested = <<1, 2, 3>>

\* The accept predicate as specified: (parses as JSON or starts with { or [)
\* and contains one of the seven quoted field names.
SpecAccepts(b) ==
    /\ b.parses \/ b.first \in {"{", "["}
    /\ b.key \in {"price", "last", "bid", "ask", "volume", "change", "quote"}

\* C15: the first candidate in declared order whose 2xx response satisfies
\* the accept predicate is the probe's result, and the response carries that
\* candidate's payload together with that candidate's URL.
C15_FirstAcceptedWins ==
    (pr.pc = "done" /\ pr.loop \in {"qsDataEndpoints", "apiEndpoints", "quoteMediaEndpoints"}) =>
       \A i \in 1..MaxCandidates :
          (/\ env[i].kind = "ok" /\ SpecAccepts(env[i].body)
           /\ \A j \in 1..(i - 1) : ~(env[j].kind = "ok" /\ SpecAccepts(env[j].body)))
             => (/\ pr.outcome = "accepted"
                 /\ pr.response.payload = i
                 /\ pr.response.url = i)

\* C16: a probe response passes a handler's check if and only if it
\* satisfies the specified accept predicate, the same in every handler.
C16_AcceptPredicate ==
    (pr.verdict.set /\ pr.loop \in {"qsDataEndpoints", "apiEndpoints", "qsApiEndpoints"})
       => (pr.verdict.passed <=> SpecAccepts(pr.verdict.body))

\* C17: when no candidate was accepted, the response is fallback data marked
\* as fallback or an explicit failure signal, never an unmarked success.
C17_NotFoundIsSignalled ==
    (pr.pc = "done" /\ pr.outcome = "notfound" /\ pr.response.sent)
       => (pr.response.fallback \/ ~pr.response.success)

(* ---------------------------------------------------------------------- *)
(* Claims about the halt feed                                              *)
(* ---------------------------------------------------------------------- *)
\* The response of GET api/halts after a fetch that succeeded and found no
\* halt dated today.
NoHaltsTodayResponse ==
    [sent |-> TRUE, status |-> 200, success |-> TRUE, halts |-> <<"[]">>,
     errorType |-> "none"]

\* C18: when every attempt to fetch the halt feed failed, the handler sends
\* an empty halt list without raising, and its response differs from the
\* one sent after a successful fetch that found no halts today.
C18_FailureIsReported ==
    FhExhausted =>
       /\ fh.exit = "return" /\ fh.response.halts = <<"[]">>
       /\ fh.response # NoHaltsTodayResponse

(* ---------------------------------------------------------------------- *)
(* Claims about the halt feed parser                                       *)
(* ---------------------------------------------------------------------- *)
\* The data rows that appear in the parser's output.
Retained == {parsed[1][k].row : k \in 1..Len(parsed[1])}

\* The cell of data row i under the header called name.
CellUnder(name, i) ==
    tbl.rows[i][CHOOSE j \in 1..Len(tbl.headers) : tbl.headers[j] = name]

\* Today's date as zero-padded MM/DD/YYYY.
TodayText == DateText(tbl.today.year, tbl.today.month + 1, tbl.today.date, TRUE)

\* C19: the parser retains a data row if and only if the text of its cell
\* under "Halt Date" is exactly today's zero-padded MM/DD/YYYY and its cell
\* under "Issue Symbol" is not empty (cell texts as the parser reads them,
\* trimmed); rows of another day and rows without symbol are never output.
C19_RetainsTodaysRows ==
    parsed # Null =>
       \A i \in 1..Len(tbl.rows) :
          (i \in Retained) <=>
             /\ CellValue(CellUnder("Halt Date", i)) = TodayText
             /\ CellValue(CellUnder("Issue Symbol", i)) # <<>>

\* A table with a row dated today and a row dated another day, both with a
\* symbol, of which the parser returned only the first.
C19_Witness ==
    /\ parsed # Null
    /\ Len(tbl.rows) = 2
    /\ CellValue(CellUnder("Halt Date", 1)) = TodayText
    /\ CellValue(CellUnder("Halt Date", 2)) = DateText(2025, 12, 31, TRUE)
    /\ CellValue(CellUnder("Issue Symbol", 1)) # <<>>
    /\ CellValue(CellUnder("Issue Symbol", 2)) # <<>>
    /\ Retained = {1}

\* C20: for every retained row, reasonCodes is the ", "-join of the anchor
\* texts in its cell under "Reason Codes", or that cell's text when it has
\* no anchors, whichever column the header row gives to "Reason Codes".
C20_ReasonCodesByHeader ==
    parsed # Null =>
       \A k \in 1..Len(parsed[1]) :
          LET cell == CellUnder("Reason Codes", parsed[1][k].row)
          IN parsed[1][k].reasonCodes =
                IF Reasons(cell) # <<>> THEN JoinComma(Reasons(cell))
                ELSE CellValue(cell)

\* C21: the parser returns an empty list and raises no error when the HTML
\* holds no table, when the table has no rows, and when no row matches
\* today.
C21_EmptyWithoutMatch ==
    (/\ parsed # Null
     /\ \/ tbl.kind # "table"
        \/ \A i \in 1..Len(tbl.rows) :
              CellValue(CellUnder("Halt Date", i)) # TodayText)
       => parseExit = "return" /\ parsed[1] = <<>>

\* The parser has run on a document without table.
C21_Witness ==
    parsed # Null /\ tbl.kind = "no table" /\ parseExit = "return"

(* ---------------------------------------------------------------------- *)
(* Claims about the symbol data handlers                                   *)
(* ---------------------------------------------------------------------- *)
\* The values a failed source may be replaced by.
Defaults == {"default of POST", "fallback of the source"}

\* C22: whichever sources failed, the aggregate request succeeds, every
\* failed source is replaced by its default and every source that
\* succeeded keeps the value it fetched.
C22_FailureIsolation ==
    (post.pc = "done" /\ \A s \in Sources : post.settled[s].status # "pending")
       => /\ post.response.success /\ post.response.status = 200
          /\ \A s \in Sources :
                IF s \in post.failed THEN post.response.data[1][s] \in Defaults
                ELSE post.response.data[1][s] = "fetched"

\* A request of the api/halts handler answered after some sources failed
\* and others succeeded.
C22_Witness ==
    /\ post.pc = "done" /\ post.variant = "halts"
    /\ post.failed # {} /\ post.failed # Sources
    /\ post.response.success

(* ---------------------------------------------------------------------- *)
(* Claims about the quote normalizer                                       *)
(* ---------------------------------------------------------------------- *)
\* Some strategy yields structured data for the text: an embedded array, or
\* a table row with at least three cells, a symbol and a price.
YieldsStructured(t) ==
    \/ \E k \in 1..4 : t.embedded[k] \in {"array", "quotes", "data", "results"}
    \/ t.brace \in {"quotes", "data"}
    \/ \E i \in 1..Len(t.rows) :
          t.rows[i].cells >= 3 /\ t.rows[i].symbol # "" /\ t.rows[i].price # ""

\* C23: the quote normalizer never raises for an input string; when no
\* strategy yields structured data it returns exactly one placeholder record
\* carrying the length of the raw body and a debug note.
C23_NeverRaises ==
    tmx.called =>
       /\ tmx.output[1].exit = "return"
       /\ ~YieldsStructured(tmx.input[1]) =>
             /\ Len(tmx.output[1].value) = 1
             /\ {"rawHtmlLength", "debug"} \subseteq DOMAIN tmx.output[1].value[1]
             /\ tmx.output[1].value[1].rawHtmlLength = tmx.input[1].length

\* The normalizer has run on a text with table rows of which none is a
\* quote, and with an embedded object that holds no array.
C23_Witness ==
    /\ tmx.called
    /\ ~YieldsStructured(tmx.input[1])
    /\ Len(tmx.input[1].rows) = 2
    /\ tmx.input[1].embedded[1] = "other"
    /\ Len(tmx.output[1].value) = 1

\* The text's records come from its table rows: no embedded array, and a row
\* that is a quote.
FromTable(t) ==
    /\ \A k \in 1..4 : t.embedded[k] \notin {"array", "quotes", "data", "results"}
    /\ t.brace \notin {"quotes", "data"}
    /\ YieldsStructured(t)

\* C25: every record the normalizer produces from HTML table rows carries
\* source = 'html-table-fallback', and no record taken from embedded
\* structured JSON carries it.
C25_TableRowsTagged ==
    tmx.called =>
       \A i \in 1..Len(tmx.output[1].value) :
          LET r == tmx.output[1].value[i]
              tagged == "source" \in DOMAIN r /\ r.source = "html-table-fallback"
          IN IF FromTable(tmx.input[1]) THEN tagged
             ELSE YieldsStructured(tmx.input[1]) => ~tagged

\* C24: a payload that cannot be parsed never aborts the quote request: the
\* request completes with an empty or diagnostic-tagged quote collection,
\* not with an error response.
C24_ParseFailureTolerated ==
    (qm.called /\ qm.body[1].kind = "not json")
       => qm.response.status = 200 /\ qm.response.quotes # Null

\* C26: a vendor response {results:{quote:[...]}} yields one canonical quote
\* per upstream object, its symbol from key.symbol and its price from
\* pricedata.last; numeric fields absent upstream are 0, absent optional
\* fields null; a missing field never makes the normalization fail.
C26_VendorQuotes ==
    (qm.called /\ qm.body[1].kind = "quote")
       => /\ qm.response.status = 200
          /\ qm.response.quotes # Null
          /\ Len(qm.response.quotes[1]) = Len(qm.body[1].items)
          /\ \A i \in 1..Len(qm.body[1].items) :
                LET up == qm.body[1].items[i]
                    q == qm.response.quotes[1][i]
                    has(sub, name) == up[sub] # Null /\ up[sub][1][name] # Null
                    val(sub, name) == up[sub][1][name][1]
                IN /\ has("key", "symbol") => q.symbol = val("key", "symbol")
                   /\ q.price = IF has("pricedata", "last") THEN val("pricedata", "last") ELSE 0
                   /\ q.change = IF has("pricedata", "change") THEN val("pricedata", "change") ELSE 0
                   /\ q.volume = IF has("pricedata", "sharevolume")
                                 THEN val("pricedata", "sharevolume") ELSE 0
                   /\ q.eps = IF has("fundamental", "eps") THEN up.fundamental[1].eps ELSE Null

\* A vendor response of two objects, the first complete, the second without
\* pricedata, has been normalized.
C26_Witness ==
    /\ qm.called /\ qm.body[1].kind = "quote"
    /\ Len(qm.body[1].items) = 2
    /\ qm.body[1].items[1].key = <<[symbol |-> <<"AAPL">>]>>
    /\ Member(qm.body[1].items[1].pricedata, "last") = <<258>>
    /\ qm.body[1].items[2].pricedata = Null
    /\ Len(qm.response.quotes[1]) = 2
    /\ qm.response.quotes[1][2].price = 0

(* ---------------------------------------------------------------------- *)
(* Claims about the polling components                                     *)
(* ---------------------------------------------------------------------- *)
\* C27: a completed fetch cycle replaces the held collection wholesale: the
\* held quotes or halts are records of the latest applied response only,
\* never a merge of two responses.
C27_ReplacedWholesale ==
    \A i \in 1..Len(ui.held) : ui.held[i].response = ui.lastApplied

\* A second response has been stored over the records of an earlier one.
C27_Witness ==
    /\ ui.lastApplied > 1
    /\ Len(ui.held) = MaxRecords
    /\ ui.inflight = {}

\* C28: after a polling loop is cancelled (component unmounted or polling
\* stopped), the completion of a request that was in flight at cancellation
\* changes neither the held data nor the error and loading state.
C28_LateCompletionDiscarded == ~ui.staleEffect

(* ---------------------------------------------------------------------- *)
(* Claims about error responses                                            *)
(* ---------------------------------------------------------------------- *)
\* C29: no error response of an acquisition handler carries a stack trace
\* of the exception; a failure is reported as an error message and typed
\* error fields only.
C29_NoStackTrace ==
    (pr.response.sent /\ pr.outcome = "error")
       => pr.response.error /\ ~pr.response.stack

(* ---------------------------------------------------------------------- *)
(* Claims about invalidation                                               *)
(* ---------------------------------------------------------------------- *)
\* C30: invalidation changes only the cached value and expiry of its kind:
\* a step in which clearCachedSid empties the SID leaves the cached token
\* and its expiry unchanged, and clearCachedToken leaves the cached SID and
\* its expiry unchanged.
C30_InvalidateOwnKindOnly ==
    [][/\ (cachedSid # Null /\ cachedSid' = Null)
             => UNCHANGED <<cachedDataToolToken, tokenExpiration>>
       /\ ClearCachedToken
             => (UNCHANGED <<cachedSid, sidExpiration>> /\ cachedDataToolToken' = Null)]_vars

\* The SID has been cleared while a token stayed cached.
C30_Witness ==
    /\ cachedSid = Null /\ sidExpiration = Null
    /\ sidRequests > 0
    /\ cachedDataToolToken # Null /\ tokenExpiration # Null

(* ---------------------------------------------------------------------- *)
(* Claims about token derivation                                           *)
(* ---------------------------------------------------------------------- *)
\* The step sends a response saying that generateDataToolToken threw, and
\* the invocation that sent it was not awaiting a token response: the throw
\* came from the getQuoteMediaSid call inside generateDataToolToken.
SidAcquisitionFailed ==
    /\ lastResponse'.sent
    /\ lastResponse'.errorType \in {"TOKEN_FAILED", "Token generation failed"}
    /\ \A p \in Procs : h[p].pc \in TokAwaitPcs => h'[p] = h[p]

\* C31: a step that issues a token request leaves it in flight carrying the
\* SID that is cached and live at that moment; a step in which the SID
\* acquisition of a token refresh fails issues no token request and leaves
\* the cached token and its expiry unchanged.
C31_TokenAfterLiveSid ==
    [][/\ tokenRequests' = tokenRequests + 1
             => \E p \in Procs :
                   /\ h'[p].pc \in TokAwaitPcs
                   /\ h'[p].req = tokenRequests'
                   /\ h'[p].reqSid = cachedSid'
                   /\ Usable(cachedSid', sidExpiration', now')
       /\ SidAcquisitionFailed
             => /\ tokenRequests' = tokenRequests
                /\ UNCHANGED <<cachedDataToolToken, tokenExpiration>>]_vars

\* A token request is in flight with the SID that a refresh has just cached.
C31_Witness ==
    \E p \in Procs :
       /\ h[p].pc \in TokAwaitPcs
       /\ sidRequests > 0
       /\ h[p].reqSid = cachedSid
       /\ h[p].req = tokenRequests

\* Outcomes of an authentication request that make the refresh fail.
FailedOutcomes == {"http_error", "no_field"}

\* C32: a refresh whose authentication response is non-2xx or lacks the
\* sid/token field leaves the cached value and expiry of its kind unchanged,
\* returns no credential to the caller and makes the calling handler answer
\* with an error.
C32_FailedRefreshInstallsNothing ==
    [][\A p \in Procs, o \in FailedOutcomes :
          /\ SidResponse(p, o)
                => /\ UNCHANGED <<cachedSid, sidExpiration>>
                   /\ ~lastSidGet'.set /\ ~lastInnerSidGet'.set
                   /\ lastResponse'.sent /\ lastResponse'.status \in {401, 500}
          /\ TokenResponse(p, o)
                => /\ UNCHANGED <<cachedDataToolToken, tokenExpiration>>
                   /\ ~lastTokenGet'.set
                   /\ lastResponse'.sent /\ lastResponse'.status \in {401, 500}]_vars

\* A SID refresh has just failed while a SID installed by another refresh
\* stayed in the cache.
C32_Witness ==
    /\ lastResponse.sent
    /\ lastResponse.errorType = "Failed to authenticate with QuoteMedia"
    /\ credsSet
    /\ cachedSid # Null /\ sidExpiration # Null

\* C33: a probe ends only by accepting a candidate or by exhausting its
\* list: a candidate that throws, answers non-2xx or is rejected by the
\* predicate is followed by the request of the next candidate.
C33_FailureDoesNotEndProbe ==
    (pr.pc = "done" /\ pr.outcome # "accepted")
       => pr.requested = [k \in 1..MaxCandidates |-> k]

(* ---------------------------------------------------------------------- *)
(* Claims about the shape of the cache                                     *)
(* ---------------------------------------------------------------------- *)
\* C34: in every reachable state the cached value and its expiry are both
\* set or both null, for the SID and for the token.
C34_ValueAndExpiryTogether ==
    /\ cachedSid = Null <=> sidExpiration = Null
    /\ cachedDataToolToken = Null <=> tokenExpiration = Null

\* A token was derived and then invalidated while the SID stayed cached.
C34_Witness ==
    /\ tokenRequests > 0 /\ tokInvalidated
    /\ cachedDataToolToken = Null /\ tokenExpiration = Null
    /\ cachedSid # Null /\ sidExpiration # Null
    /\ \E p \in Procs : h[p].pc = "proxy_fetch"

\* C35: whenever generateDataToolToken answers from the cache, the SID the
\* returned token was derived from is the cached SID and is within its TTL.
C35_TokenOnlyWithItsSid ==
    (lastTokenGet.set /\ lastTokenGet.net = 0 /\ lastTokenGet.val # Null)
       => /\ cachedSid = <<lastTokenGet.val[2]>>
          /\ Usable(cachedSid, sidExpiration, now)

(* ---------------------------------------------------------------------- *)
(* Claims about concurrency inside withRetry                               *)
(* ---------------------------------------------------------------------- *)
\* C36: within one withRetry execution at most one fn() invocation is
\* pending at any time, and none is pending once withRetry has returned or
\* thrown.
C36_OneActionInFlight ==
    /\ Cardinality(wr.running) <= 1
    /\ wr.pc \in {"returned", "thrown"} => wr.running = {}

(* ---------------------------------------------------------------------- *)
(* Claims about overlapping requests of the polling components             *)
(* ---------------------------------------------------------------------- *)
\* C37: in RealTimeQuotes a response is applied to the displayed quotes
\* only if its request was issued for the filter selection that is current
\* when it is applied.
C37_NoStaleFilterResponse ==
    [][(ui'.comp = "RealTimeQuotes" /\ ui'.lastApplied # ui.lastApplied)
          => ui'.sent[ui'.lastApplied] = ui'.filter]_vars

\* C38: in HaltsTable an older response never overwrites a newer one: the
\* request whose response is displayed never moves back to one issued
\* earlier.
C38_NewestResponseWins ==
    [][ui'.comp = "HaltsTable" => ui'.lastApplied >= ui.lastApplied]_vars

\* C39: in HaltsTable a step that leaves auto-refresh off issues a fetch
\* only if it is a manual refresh; turning auto-refresh off issues none.
C39_NoFetchWhileOff ==
    [][(ui'.comp = "HaltsTable" /\ ui'.paused /\ ui'.issued > ui.issued)
          => Refresh(TRUE)]_vars

(* ---------------------------------------------------------------------- *)
(* Claims about TMXWebStreamer                                             *)
(* ---------------------------------------------------------------------- *)
\* C40: once stopStreaming has run, and until streaming is started again,
\* no polling interval is active, no WebSocket is open and no poll adds
\* stream data.
C40_StopStopsEverything ==
    stream.stopped
       => /\ stream.intervals = {}
          /\ stream.sockets = {}
          /\ ~stream.addedAfterStop

====
